---- MODULE Spec2Model ----
(***************************************************************************)
(* Model of the wallet core of oskyk/wallet.rs: the transfer engine        *)
(* (SyncedAccount::transfer, select_inputs, perform_transfer), the         *)
(* locked-address set, output consolidation and the dust check             *)
(* (is_dust_allowed) of src/account/sync/mod.rs.                           *)
(***************************************************************************)
EXTENDS Integers, Sequences, FiniteSets, TLC

\* ------------------------------------------------------------------------
\* Program constants
\* ------------------------------------------------------------------------
DUST_ALLOWANCE_VALUE == 1000000

INPUT_OUTPUT_COUNT_MAX == 127

\* divisor of the dust allowance balance: one dust output per 100_000 tokens
DustAllowanceDivisor == 100000

\* "Max allowed dust outputs is 100"
MaxDustOutputs == 100

\* AccountOptions::output_consolidation_threshold as configured through
\* AccountManagerBuilder::with_output_consolidation_threshold
OutputConsolidationThreshold == 2

\* ------------------------------------------------------------------------
\* Bounds of the model
\* ------------------------------------------------------------------------
\* number of SyncedAccount::transfer calls (tasks) that may be started
NumTransfers == 2

Transfers == 1..NumTransfers

\* largest number of unspent dust outputs on the address of a stand-alone
\* dust check (the counts around MaxDustOutputs are tried as well)
MaxDust == 11

\* longest list of pending deltas handed to a stand-alone dust check
MaxDeltas == 2

\* ------------------------------------------------------------------------
\* Values
\* ------------------------------------------------------------------------
\* AddressWrapper of the account: derived from (internal flag, key index)
AccountAddress(internal, key_index) ==
    [owner |-> "account", internal |-> internal, key_index |-> key_index]

\* an address that does not belong to the account
ExternalAddress(n) ==
    [owner |-> "external", internal |-> FALSE, key_index |-> n]

NoAddress == [owner |-> "none", internal |-> FALSE, key_index |-> 0]

\* Address: the wrapper plus the balance recorded by the last sync
Address(internal, key_index, balance) ==
    [address |-> AccountAddress(internal, key_index), balance |-> balance]

\* AddressOutput
Output(address, amount, kind, is_spent) ==
    [address |-> address, amount |-> amount, kind |-> kind, is_spent |-> is_spent]

\* RemainderValueStrategy
ReuseAddress == [kind |-> "ReuseAddress", address |-> NoAddress]

ChangeAddress == [kind |-> "ChangeAddress", address |-> NoAddress]

AccountAddressStrategy(a) == [kind |-> "AccountAddress", address |-> a]

\* Transfer: destination, amount, remainder strategy and the optional
\* explicit input (address, outputs) set by Transfer::with_input
Transfer(address, amount, strategy, input) ==
    [address |-> address, amount |-> amount,
     remainder_value_strategy |-> strategy, input |-> input]

NoTransfer == Transfer(NoAddress, 0, ChangeAddress, <<>>)

VARIABLES
    addresses,         \* Account::addresses: sequence of Address
    outputs,           \* the output maps of the account's addresses: id -> AddressOutput
    messages,          \* Account::messages: sequence of Message
    storage,           \* the account as last written by Account::save
    node_outputs,      \* what the node's find_outputs answers for the external address
    locked_addresses,  \* AccountHandle::locked_addresses: Vec<AddressWrapper>
    account_writer,    \* the transfer holding the account's write lock, 0 if none
    pc,                \* position of each transfer task
    transfer_obj,      \* the Transfer of each task
    input_addresses,   \* transfer(): the selected (Input, outputs) pairs
    remainder_address, \* transfer(): Option<Input>, the remainder source
    local,             \* perform_transfer's locals
    res,               \* the Result each transfer() returned
    trace,             \* per transfer: what it was asked, the calls it made, what it appended
    dust,              \* inputs and results of stand-alone is_dust_allowed calls
    ledger,            \* the node: state of every output and message metadata
    account,           \* the synced Account: its addresses (with output maps) and messages
    synchronizer,      \* per sync task: the AccountSynchronizer, its locals and events
    last_sync,         \* the last completed sync: its steps, the ledger it read, its events
    saved_state,       \* the account's last_synced_at and the copy Account::save wrote
    synced_address,    \* input and result of a stand-alone sync_address call
    sync_accounts_lock,\* AccountManager::sync_accounts_lock: who holds the mutex
    store,             \* AccountManager::accounts: the AccountStore, by account index
    node,              \* the node as the account manager sees it: balances, metadata, ids
    poller,            \* the polling thread: its loop and the tick in progress
    caller,            \* the explicit sync_accounts().execute() calls
    last_discovery,    \* the last run of execute_internal: what discovery probed and inserted
    handles,           \* the AccountManager values: the original and its clones
    manager_storage,   \* the account table of the storage adapter: the indexes saved
    last_call          \* the last call of the application and what it returned

vars == <<addresses, outputs, messages, storage, node_outputs, locked_addresses,
          account_writer, pc, transfer_obj, input_addresses, remainder_address,
          local, res, trace, dust, ledger, account, synchronizer, last_sync,
          saved_state, synced_address, sync_accounts_lock, store, node, poller, caller, last_discovery,
          handles, manager_storage, last_call>>

\* the state of account synchronisation
sync_vars == <<ledger, account, synchronizer, last_sync, saved_state, synced_address>>

\* the state of the account manager and its poller
api_vars == <<handles, manager_storage, last_call>>

poll_vars == <<sync_accounts_lock, store, node, poller, caller, last_discovery, api_vars>>

\* what the transfer engine leaves alone
idle_vars == <<dust, sync_vars, poll_vars>>

\* no account is being synchronised
SyncIdle ==
    /\ ledger = [outputs |-> <<>>, metadata |-> <<>>]
    /\ account = [addresses |-> <<>>, messages |-> <<>>, sync_spent_outputs |-> FALSE]
    /\ synchronizer = <<>>
    /\ last_sync = <<>>
    /\ saved_state = <<>>
    /\ synced_address = <<>>

\* no account manager is polling
PollIdle ==
    /\ sync_accounts_lock = "none"
    /\ store = <<>>
    /\ node = <<>>
    /\ poller = <<>>
    /\ caller = <<>>
    /\ last_discovery = <<>>
    /\ handles = <<>>
    /\ manager_storage = {}
    /\ last_call = <<>>

\* ------------------------------------------------------------------------
\* Helpers on sequences and sets
\* ------------------------------------------------------------------------
Range(s) == {s[i] : i \in 1..Len(s)}

Contains(s, x) == \E i \in 1..Len(s) : s[i] = x

\* number of occurrences of x in the sequence s
Count(s, x) == Cardinality({i \in 1..Len(s) : s[i] = x})

\* the ids of S in increasing order: the numbers from the least to the
\* greatest id of S that are in S
SetToSeq(S) ==
    IF S = {} THEN <<>>
    ELSE LET least == CHOOSE x \in S : \A y \in S : x <= y
             greatest == CHOOSE x \in S : \A y \in S : y <= x
             InS(x) == x \in S
         IN SelectSeq([i \in 1..(greatest - least + 1) |-> least + i - 1], InS)

RECURSIVE SumAmounts(_)
\* sum of the amounts of a sequence of output ids
SumAmounts(ids) ==
    IF ids = <<>> THEN 0
    ELSE IF Len(ids) = 1 THEN outputs[ids[1]].amount
    ELSE LET half == Len(ids) \div 2
         IN SumAmounts(SubSeq(ids, 1, half)) + SumAmounts(SubSeq(ids, half + 1, Len(ids)))

RECURSIVE SumBalance(_)
\* sum of the balances of a sequence of Input or Address records
SumBalance(s) ==
    IF s = <<>> THEN 0 ELSE Head(s).balance + SumBalance(Tail(s))

\* RemoveFirst that pops the last element instead of the element found
RemoveLast(s, x) == SubSeq(s, 1, Len(s) - 1)

\* Vec::remove(position(x)): drops the first occurrence of x
RemoveFirst(s, x) ==
    LET i == CHOOSE j \in 1..Len(s) : s[j] = x /\ \A k \in 1..(j - 1) : s[k] # x
    IN SubSeq(s, 1, i - 1) \o SubSeq(s, i + 1, Len(s))

\* ------------------------------------------------------------------------
\* Account queries
\* ------------------------------------------------------------------------
IsAccountAddress(a) == \E i \in 1..Len(addresses) : addresses[i].address = a

\* Account::balance().total
TotalBalance == SumBalance(addresses)

\* AddressOutput::is_used: an unconfirmed message of the account consumes it
IsUsed(o) ==
    \E i \in 1..Len(messages) :
        messages[i].confirmed = "unknown" /\ o \in messages[i].inputs

\* Address::available_outputs
AvailableOutputs(a) ==
    SetToSeq({o \in DOMAIN outputs :
                 outputs[o].address = a /\ ~outputs[o].is_spent /\ ~IsUsed(o)})

\* Address::available_balance
AvailableBalance(a) == SumAmounts(AvailableOutputs(a))

\* Account::latest_address: the public address with the highest key index
LatestAddress ==
    LET pub == {i \in 1..Len(addresses) : ~addresses[i].address.internal}
        i == CHOOSE j \in pub :
                 \A k \in pub : addresses[k].address.key_index
                                    <= addresses[j].address.key_index
    IN addresses[i].address

\* address::get_new_address: the public address after the latest one
NewAddress == Address(FALSE, LatestAddress.key_index + 1, 0)

\* address::get_new_change_address: the internal address at the key index of `a`
NewChangeAddress(a) == Address(TRUE, a.key_index, 0)

\* ------------------------------------------------------------------------
\* Input selection (input_selection::select_input)
\* ------------------------------------------------------------------------
\* input_selection::Input
Input(a) ==
    [address |-> a, internal |-> a.internal, balance |-> AvailableBalance(a)]

\* tie break: the lower key index first, then the internal address first
TieBefore(a, b) ==
    \/ a.address.key_index < b.address.key_index
    \/ a.address.key_index = b.address.key_index /\ a.internal /\ ~b.internal

\* a is placed before b when inputs are ordered by descending balance
DescBefore(a, b) ==
    a.balance > b.balance \/ (a.balance = b.balance /\ TieBefore(a, b))

RECURSIVE SortDesc(_)
SortDesc(S) ==
    IF S = {} THEN <<>>
    ELSE LET m == CHOOSE x \in S : \A y \in S \ {x} : DescBefore(x, y)
         IN <<m>> \o SortDesc(S \ {m})

RECURSIVE CoveringPrefix(_, _)
\* the shortest prefix of s whose balances reach the target
CoveringPrefix(s, target) ==
    IF s = <<>> \/ target <= 0 THEN <<>>
    ELSE <<Head(s)>> \o CoveringPrefix(Tail(s), target - Head(s).balance)

\* select_input(target, inputs): an exact single input, else the smallest
\* single input covering the target, else internal inputs then public
\* inputs by descending balance up to the first coverage
SelectInput(target, inputs) ==
    LET S == Range(inputs)
        exact == {x \in S : x.balance = target}
        covering == {x \in S : x.balance > target}
    IN IF SumBalance(inputs) < target
       THEN [ok |-> FALSE, selected |-> <<>>]
       ELSE IF exact # {}
       THEN [ok |-> TRUE,
             selected |-> <<CHOOSE x \in exact :
                               \A y \in exact \ {x} : TieBefore(x, y)>>]
       ELSE IF covering # {}
       THEN [ok |-> TRUE,
             selected |-> <<CHOOSE x \in covering :
                               \A y \in covering \ {x} :
                                   \/ y.balance > x.balance
                                   \/ y.balance = x.balance /\ TieBefore(x, y)>>]
       ELSE [ok |-> TRUE,
             selected |->
                 CoveringPrefix(SortDesc({x \in S : x.internal})
                                    \o SortDesc({x \in S : ~x.internal}), target)]

\* the filter of the first selection: the destination is allowed as an
\* input only if it has more than one available output
FirstFilter(a, destination, locked) ==
    /\ (a # destination \/ Len(AvailableOutputs(a)) > 1)
    /\ AvailableBalance(a) > 0
    /\ ~Contains(locked, a)

\* a second selection that lets the destination in again
SecondFilterWithDestination(a, destination, locked) ==
    /\ AvailableBalance(a) > 0
    /\ ~Contains(locked, a)

\* the filter of the second selection: the destination is excluded
SecondFilter(a, destination, locked) ==
    /\ a # destination
    /\ AvailableBalance(a) > 0
    /\ ~Contains(locked, a)

\* the inputs of the account's addresses that pass the first filter
FirstCandidates(destination, locked) ==
    SelectSeq([i \in 1..Len(addresses) |-> Input(addresses[i].address)],
              LAMBDA x : FirstFilter(x.address, destination, locked))

SecondCandidates(destination, locked) ==
    SelectSeq([i \in 1..Len(addresses) |-> Input(addresses[i].address)],
              LAMBDA x : SecondFilter(x.address, destination, locked))

\* SyncedAccount::select_inputs: [ok, selected, remainder]; the caller
\* extends the locked addresses with the selected ones
SelectInputs(locked, obj) ==
    LET first == SelectInput(obj.amount, FirstCandidates(obj.address, locked))
        has_remainder == SumBalance(first.selected) > obj.amount
        rerun == /\ has_remainder
                 /\ obj.remainder_value_strategy = ReuseAddress
                 /\ IsAccountAddress(obj.address)
        second == SelectInput(obj.amount, SecondCandidates(obj.address, locked))
        final == IF first.ok /\ rerun THEN second ELSE first
    IN [ok |-> final.ok,
        selected |-> final.selected,
        remainder |-> IF final.ok /\ has_remainder
                      THEN <<final.selected[Len(final.selected)]>>
                      ELSE <<>>]

\* ------------------------------------------------------------------------
\* Dust check (is_dust_allowed)
\* ------------------------------------------------------------------------
\* an entry of dust_and_allowance_recorders: (amount, address, created)
Recorder(amount, address, created) ==
    [amount |-> amount, address |-> address, created |-> created]

\* i64 division truncates towards zero
TruncDiv(a, b) == IF a >= 0 THEN a \div b ELSE -((-a) \div b)

Min(a, b) == IF a <= b THEN a ELSE b

\* CreatedOutput without the test of the amount: every created output
\* counts as a dust output
CreatedOutputAlwaysDust(acc, amount) ==
    [acc EXCEPT !.dust_outputs_amount = @ + 1]

\* a newly created output of the transaction; amounts are token amounts, at
\* most the supply of 2,779,530,283,277,761 < 2^63, on which `as i64` is
\* the identity
CreatedOutput(acc, amount) ==
    IF amount >= DUST_ALLOWANCE_VALUE
    THEN [acc EXCEPT !.dust_allowance_balance = @ + amount]
    ELSE [acc EXCEPT !.dust_outputs_amount = @ + 1]

\* an output consumed by the transaction
ConsumedOutput(acc, amount) ==
    IF amount >= DUST_ALLOWANCE_VALUE
    THEN [acc EXCEPT !.dust_allowance_balance = @ - amount]
    ELSE [acc EXCEPT !.dust_outputs_amount = @ - 1]

RECURSIVE ApplyDeltas(_, _)
\* "Add outputs from this transaction"
ApplyDeltas(deltas, acc) ==
    IF deltas = <<>> THEN acc
    ELSE ApplyDeltas(Tail(deltas),
                     IF Head(deltas).created
                     THEN CreatedOutput(acc, Head(deltas).amount)
                     ELSE ConsumedOutput(acc, Head(deltas).amount))

\* "Get outputs from address": every value of the address's output map when
\* the account knows the address, else what the node's find_outputs answers
AddressOutputsOf(address) ==
    IF IsAccountAddress(address)
    THEN LET held == SelectSeq([i \in 1..Cardinality(DOMAIN outputs) |-> outputs[i]],
                               LAMBDA o : o.address = address)
         IN [i \in 1..Len(held) |-> [amount |-> held[i].amount, kind |-> held[i].kind]]
    ELSE node_outputs

RECURSIVE SumOutputs(_)
\* sum of the amounts of a sequence of outputs
SumOutputs(outs) ==
    IF outs = <<>> THEN 0 ELSE Head(outs).amount + SumOutputs(Tail(outs))

\* "apply values" of the outputs the address holds: a dust allowance output
\* adds its amount to the balance, a single output below the dust
\* allowance value adds one to the dust outputs
ApplyAddressOutputs(outs, acc) ==
    LET allowances ==
            SelectSeq(outs, LAMBDA o : o.kind = "SignatureLockedDustAllowance")
        dust_outputs ==
            SelectSeq(outs, LAMBDA o : /\ o.kind = "SignatureLockedSingle"
                                       /\ o.amount < DUST_ALLOWANCE_VALUE)
    IN [dust_allowance_balance |-> acc.dust_allowance_balance + SumOutputs(allowances),
        dust_outputs_amount |-> acc.dust_outputs_amount + Len(dust_outputs)]

\* is_dust_allowed(account, client, address, outputs): TRUE for Ok(()),
\* FALSE for DustError
IsDustAllowed(address, deltas) ==
    LET zero == [dust_allowance_balance |-> 0, dust_outputs_amount |-> 0]
        acc == ApplyAddressOutputs(AddressOutputsOf(address), ApplyDeltas(deltas, zero))
        allowed_dust_amount ==
            Min(TruncDiv(acc.dust_allowance_balance, DustAllowanceDivisor), MaxDustOutputs)
    IN ~(acc.dust_outputs_amount > allowed_dust_amount)

\* ------------------------------------------------------------------------
\* Initial states
\* ------------------------------------------------------------------------
P0 == AccountAddress(FALSE, 0)

P1 == AccountAddress(FALSE, 1)

I0 == AccountAddress(TRUE, 0)

EXT == ExternalAddress(0)

\* Message as built by Message::from_iota_message for the transfer t
Message(t, inputs, essence_outputs) ==
    [id |-> t, inputs |-> inputs, outputs |-> essence_outputs, confirmed |-> "unknown"]

\* Synced accounts the transfers start from: the addresses with the balance
\* of their unspent outputs, the output maps, the node's outputs of EXT
Accounts ==
    { [addresses |-> <<Address(FALSE, 0, 3000000), Address(FALSE, 1, 3000000)>>,
       outputs |-> (1 :> Output(P0, 1000000, "SignatureLockedSingle", FALSE)
                 @@ 2 :> Output(P0, 2000000, "SignatureLockedSingle", FALSE)
                 @@ 3 :> Output(P1, 3000000, "SignatureLockedSingle", FALSE)),
       node_outputs |-> <<>>],
      [addresses |-> <<Address(FALSE, 0, 3000000), Address(FALSE, 1, 3000000),
                       Address(TRUE, 0, 2000000)>>,
       outputs |-> (1 :> Output(P0, 1000000, "SignatureLockedSingle", FALSE)
                 @@ 2 :> Output(P0, 2000000, "SignatureLockedSingle", FALSE)
                 @@ 3 :> Output(P1, 1000000, "SignatureLockedSingle", FALSE)
                 @@ 4 :> Output(P1, 2000000, "SignatureLockedSingle", FALSE)
                 @@ 5 :> Output(I0, 2000000, "SignatureLockedSingle", FALSE)
                 @@ 6 :> Output(I0, 500000, "SignatureLockedSingle", TRUE)),
       node_outputs |-> <<[amount |-> 1000000, kind |-> "SignatureLockedDustAllowance"]>>] }

\* the transfers a user may request
Destinations == {EXT, P1}

Amounts == {1000000, 2500000, 7000000}

Strategies == {ChangeAddress, AccountAddressStrategy(ExternalAddress(1))}

\* every destination, amount and strategy is requested; of the pairs of
\* requests that take the same path through transfer() one is kept
Requests ==
    {Transfer(d, a, s, <<>>) : d \in Destinations, a \in Amounts, s \in Strategies}
    \ ( {Transfer(P1, a, ChangeAddress, <<>>) : a \in {1000000, 7000000}}
        \cup {Transfer(d, 2500000, AccountAddressStrategy(ExternalAddress(1)), <<>>) :
                 d \in Destinations}
        \cup {Transfer(P1, 7000000, AccountAddressStrategy(ExternalAddress(1)), <<>>)} )

NoLocal ==
    [remainder_value |-> 0, dust |-> <<>>, deposit |-> <<>>,
     essence_outputs |-> <<>>, result |-> "none"]

\* what was asked of a transfer, observed when transfer() is entered
Asked(requested) ==
    [exceeds_balance |-> requested.amount > SumBalance(addresses),
     own_destination |->
         \E i \in 1..Len(addresses) : addresses[i].address = requested.address,
     foreign_remainder_target |->
         /\ requested.remainder_value_strategy.kind = "AccountAddress"
         /\ \A i \in 1..Len(addresses) :
                addresses[i].address # requested.remainder_value_strategy.address
]

NoTrace ==
    [by_poller |-> FALSE, asked |-> Asked(NoTransfer),
     calls |-> <<>>, appended |-> {}, dust_error |-> NoAddress]

NoDust == [phase |-> "off", address |-> NoAddress, deltas |-> <<>>,
           result |-> FALSE, previous |-> FALSE]

InitTransfers ==
    /\ locked_addresses = <<>>
    /\ account_writer = 0
    /\ pc = [t \in Transfers |-> "idle"]
    /\ transfer_obj = [t \in Transfers |-> NoTransfer]
    /\ input_addresses = [t \in Transfers |-> <<>>]
    /\ remainder_address = [t \in Transfers |-> <<>>]
    /\ local = [t \in Transfers |-> NoLocal]
    /\ res = [t \in Transfers |-> "none"]
    /\ trace = [t \in Transfers |-> NoTrace]

Init ==
    /\ \E a \in Accounts :
          /\ addresses = a.addresses
          /\ outputs = a.outputs
          /\ node_outputs = a.node_outputs
          /\ storage = [addresses |-> a.addresses, messages |-> <<>>]
    /\ messages = <<>>
    /\ InitTransfers
    /\ dust = NoDust
    /\ SyncIdle
    /\ PollIdle

\* ------------------------------------------------------------------------
\* SyncedAccount::transfer, up to the release of the locked-address mutex
\* ------------------------------------------------------------------------
account_vars == <<addresses, outputs, messages, storage, node_outputs>>

\* ForceReuse without the override: the caller's strategy is kept
KeepStrategy(obj) == obj

\* the destination belongs to the account: the remainder goes back to the input
ForceReuse(obj) ==
    IF IsAccountAddress(obj.address)
    THEN [obj EXCEPT !.remainder_value_strategy = ReuseAddress]
    ELSE obj

\* ExceedsBalance without the comparison: the balance is never checked
BalanceUnchecked(obj) == FALSE

\* "if value > balance.total"
ExceedsBalance(obj) == obj.amount > TotalBalance

\* InvalidRemainderTarget with the membership test inverted
InvalidRemainderTargetInverted(obj) ==
    /\ obj.remainder_value_strategy.kind = "AccountAddress"
    /\ IsAccountAddress(obj.remainder_value_strategy.address)

\* the AccountAddress strategy names an address the account does not have
InvalidRemainderTarget(obj) ==
    /\ obj.remainder_value_strategy.kind = "AccountAddress"
    /\ ~IsAccountAddress(obj.remainder_value_strategy.address)

\* the (Input, outputs) pair of a transfer that names its input
ExplicitInput(input) ==
    <<[address |-> input.address, internal |-> input.address.internal,
       balance |-> SumAmounts(input.outputs), outputs |-> input.outputs]>>

\* the selected inputs, each with the available outputs of its address
WithOutputs(selected) ==
    [i \in 1..Len(selected) |->
        [address |-> selected[i].address, internal |-> selected[i].internal,
         balance |-> selected[i].balance,
         outputs |-> AvailableOutputs(selected[i].address)]]

\* the addresses of a sequence of inputs
AddressesOf(inputs) == [i \in 1..Len(inputs) |-> inputs[i].address]

\* transfer() returns early with an error: nothing was locked
ReturnEarly(t, requested, error) ==
    /\ pc' = [pc EXCEPT ![t] = "done"]
    /\ res' = [res EXCEPT ![t] = error]
    /\ transfer_obj' = [transfer_obj EXCEPT ![t] = NoTransfer]
    /\ trace' = [trace EXCEPT ![t].asked = Asked(requested)]
    /\ UNCHANGED <<account_vars, locked_addresses, account_writer, input_addresses,
                   remainder_address, local, idle_vars>>

\* the inputs are chosen and their addresses pushed to the locked addresses
LockInputs(t, requested, obj, inputs, remainder) ==
    /\ locked_addresses' = locked_addresses \o AddressesOf(inputs)
    /\ input_addresses' = [input_addresses EXCEPT ![t] = inputs]
    /\ remainder_address' = [remainder_address EXCEPT ![t] = remainder]
    /\ transfer_obj' = [transfer_obj EXCEPT ![t] = [obj EXCEPT !.input = <<>>]]
    /\ pc' = [pc EXCEPT ![t] = "selected"]
    /\ trace' = [trace EXCEPT ![t].asked = Asked(requested)]
    /\ UNCHANGED <<account_vars, account_writer, local, res, idle_vars>>

\* lines 1162-1261 of transfer(), run under the account's read lock and the
\* locked-address mutex
EnterTransfer(t, requested) ==
    LET obj == ForceReuse(requested)
        sel == SelectInputs(locked_addresses, obj)
    IN /\ account_writer = 0
       /\ IF ExceedsBalance(obj)
          THEN ReturnEarly(t, requested, "InsufficientFunds")
          ELSE IF InvalidRemainderTarget(obj)
          THEN ReturnEarly(t, requested, "InvalidRemainderValueAddress")
          ELSE IF obj.input # <<>>
          THEN IF IsAccountAddress(obj.input[1].address)
               THEN LockInputs(t, requested, obj, ExplicitInput(obj.input[1]), <<>>)
               ELSE ReturnEarly(t, requested, "InsufficientFunds")
          ELSE IF sel.ok
               THEN LockInputs(t, requested, obj, WithOutputs(sel.selected),
                               sel.remainder)
               ELSE ReturnEarly(t, requested, "InsufficientFunds")

\* a user calls transfer() with a request of their choice
UserTransfer(t) ==
    /\ pc[t] = "idle"
    \* the tasks are numbered in the order in which they start
    /\ \A s \in Transfers : s < t => pc[s] # "idle"
    /\ \E r \in Requests : EnterTransfer(t, r)

\* a task created by consolidate_outputs is polled for the first time
ConsolidationTransfer(t) ==
    /\ pc[t] = "queued"
    /\ EnterTransfer(t, transfer_obj[t])

\* ------------------------------------------------------------------------
\* perform_transfer
\* ------------------------------------------------------------------------
RECURSIVE Utxos(_)
\* the outputs of all input addresses, in input order
Utxos(inputs) ==
    IF inputs = <<>> THEN <<>> ELSE Head(inputs).outputs \o Utxos(Tail(inputs))

\* the recorder of a consumed utxo, by its kind
ConsumedRecorder(u) ==
    CASE u.kind = "SignatureLockedSingle" ->
             IF u.amount < DUST_ALLOWANCE_VALUE
             THEN <<Recorder(u.amount, u.address, FALSE)>>
             ELSE <<>>
      [] u.kind = "SignatureLockedDustAllowance" ->
             <<Recorder(u.amount, u.address, FALSE)>>
      [] OTHER -> <<>>

\* a balance left on the source address that is dust is recorded as created
RemainingRecorder(remaining, address) ==
    IF remaining < DUST_ALLOWANCE_VALUE /\ remaining # 0
    THEN <<Recorder(remaining, address, TRUE)>>
    ELSE <<>>

\* the loop body without the split: a utxo is added whole until the sum
\* has reached the amount
AddUtxoWhole(acc, u, amount) ==
    LET acc1 == [acc EXCEPT !.dust = @ \o ConsumedRecorder(u)]
    IN IF acc1.current_output_sum >= amount
       THEN [acc1 EXCEPT !.remainder_value = @ + u.amount]
       ELSE [acc1 EXCEPT !.current_output_sum = @ + u.amount]

\* one iteration of the loop over the utxos
AddUtxo(acc, u, amount) ==
    LET acc1 == [acc EXCEPT !.dust = @ \o ConsumedRecorder(u)]
    IN IF acc1.current_output_sum = amount
       THEN [acc1 EXCEPT !.remainder_value = @ + u.amount]
       ELSE IF acc1.current_output_sum + u.amount > amount
       THEN LET missing_value == amount - acc1.current_output_sum
                sum == acc1.current_output_sum + missing_value
            IN [acc1 EXCEPT !.remainder_value = @ + (u.amount - missing_value),
                            !.current_output_sum = sum,
                            !.dust = @ \o RemainingRecorder(sum - amount, u.address)]
       ELSE LET sum == acc1.current_output_sum + u.amount
            IN [acc1 EXCEPT !.current_output_sum = sum,
                            !.dust = @ \o (IF sum > amount
                                           THEN RemainingRecorder(sum - amount, u.address)
                                           ELSE <<>>)]

RECURSIVE AddUtxos(_, _, _)
AddUtxos(acc, utxos, amount) ==
    IF utxos = <<>> THEN acc
    ELSE AddUtxos(AddUtxo(acc, outputs[Head(utxos)], amount), Tail(utxos), amount)

\* the sums and recorders before the remainder is resolved
Accumulated(obj, inputs) ==
    AddUtxos([current_output_sum |-> 0, remainder_value |-> 0,
              dust |-> IF obj.amount < DUST_ALLOWANCE_VALUE
                       THEN <<Recorder(obj.amount, obj.address, TRUE)>>
                       ELSE <<>>],
             Utxos(inputs), obj.amount)

\* the internal address of the account at the key index of `source`, if any
ChangeAddressOf(source) ==
    {i \in 1..Len(addresses) :
        addresses[i].address.internal
        /\ addresses[i].address.key_index = source.key_index}

\* the remainder always goes back to the address it comes from
RemainderDepositOnSource(obj, source) == [deposit |-> source, generated |-> <<>>]

\* the remainder deposit address and the address generated for it, if one is:
\* [deposit, generated], generated a sequence of at most one Address
RemainderDeposit(obj, source) ==
    CASE obj.remainder_value_strategy.kind = "AccountAddress" ->
             [deposit |-> obj.remainder_value_strategy.address, generated |-> <<>>]
      [] obj.remainder_value_strategy.kind = "ReuseAddress" ->
             [deposit |-> source, generated |-> <<>>]
      [] OTHER ->
             IF source.internal
             THEN IF LatestAddress = obj.address
                  THEN [deposit |-> NewAddress.address, generated |-> <<NewAddress>>]
                  ELSE [deposit |-> LatestAddress, generated |-> <<>>]
             ELSE IF ChangeAddressOf(source) # {}
             THEN [deposit |-> addresses[CHOOSE i \in ChangeAddressOf(source) :
                                   \A j \in ChangeAddressOf(source) : i <= j].address,
                   generated |-> <<>>]
             ELSE [deposit |-> NewChangeAddress(source).address,
                   generated |-> <<NewChangeAddress(source)>>]

\* RemainderRecorder that records nothing
RemainderUnrecorded(remainder_value, deposit) == <<>>

\* the remainder is itself a dust output on the deposit address
RemainderRecorder(remainder_value, deposit) ==
    IF remainder_value < DUST_ALLOWANCE_VALUE
    THEN <<Recorder(remainder_value, deposit, TRUE)>>
    ELSE <<>>

\* order of two outputs in the sealed essence (stands for the byte order)
OutputBefore(a, b) ==
    \/ (a.address.owner = "account" /\ b.address.owner # "account")
    \/ a.address.owner = b.address.owner
         /\ \/ a.address.key_index < b.address.key_index
            \/ a.address.key_index = b.address.key_index
                 /\ \/ (~a.address.internal /\ b.address.internal)
                    \/ a.address.internal = b.address.internal /\ a.amount <= b.amount

\* outputs_for_essence after sort_unstable_by_key
SortedOutputs(outs) ==
    IF Len(outs) = 2 /\ ~OutputBefore(outs[1], outs[2])
    THEN <<outs[2], outs[1]>>
    ELSE outs

\* perform_transfer leaves with an error: the write lock is dropped
FailTransfer(t, error) ==
    /\ local' = [local EXCEPT ![t].result = error]
    /\ pc' = [pc EXCEPT ![t] = "returned"]
    /\ account_writer' = 0

\* lines 1311-1517: the utxos are summed up, the write lock is taken and the
\* remainder deposit address is resolved, generating an address if needed
PrepareTransfer(t) ==
    /\ pc[t] = "selected"
    /\ account_writer = 0
    /\ LET obj == transfer_obj[t]
           acc == Accumulated(obj, input_addresses[t])
       IN IF acc.remainder_value > 0
          THEN IF remainder_address[t] = <<>>
               THEN \* expect("remainder address not defined") panics
                    /\ pc' = [pc EXCEPT ![t] = "panicked"]
                    /\ UNCHANGED <<addresses, local, trace, account_writer>>
               ELSE LET rd == RemainderDeposit(obj, remainder_address[t][1].address)
                    IN \/ /\ addresses' = addresses \o rd.generated
                          /\ local' = [local EXCEPT ![t] =
                                [remainder_value |-> acc.remainder_value,
                                 dust |-> acc.dust
                                     \o RemainderRecorder(acc.remainder_value, rd.deposit),
                                 deposit |-> <<rd.deposit>>,
                                 essence_outputs |->
                                     <<[address |-> obj.address, amount |-> obj.amount],
                                       [address |-> rd.deposit,
                                        amount |-> acc.remainder_value]>>,
                                 result |-> "none"]]
                          /\ trace' = [trace EXCEPT ![t].appended =
                                @ \cup {rd.generated[i].address : i \in 1..Len(rd.generated)}]
                          /\ pc' = [pc EXCEPT ![t] = "prepared"]
                          /\ account_writer' = t
                       \/ \* the signer fails to generate the address
                          /\ rd.generated # <<>>
                          /\ FailTransfer(t, "SignerError")
                          /\ UNCHANGED <<addresses, trace>>
          ELSE /\ local' = [local EXCEPT ![t] =
                     [remainder_value |-> 0, dust |-> acc.dust, deposit |-> <<>>,
                      essence_outputs |->
                          <<[address |-> obj.address, amount |-> obj.amount]>>,
                      result |-> "none"]]
               /\ pc' = [pc EXCEPT ![t] = "prepared"]
               /\ account_writer' = t
               /\ UNCHANGED <<addresses, trace>>
    /\ UNCHANGED <<outputs, messages, storage, node_outputs, locked_addresses,
                   transfer_obj, input_addresses, remainder_address, res, idle_vars>>

\* the deltas recorded for one address
DeltasOf(recorders, address) ==
    SelectSeq(recorders, LAMBDA r : r.address = address)

\* the addresses whose dust check fails
DustFailures(recorders) ==
    {a \in {recorders[i].address : i \in 1..Len(recorders)} :
        ~IsDustAllowed(a, DeltasOf(recorders, a))}

\* the result of is_dust_allowed is dropped: the transfer goes on to sign
DustCheckIgnored(t) ==
    /\ pc[t] = "prepared"
    /\ \/ /\ pc' = [pc EXCEPT ![t] = "checked"]
          /\ \/ /\ DustFailures(local[t].dust) = {}
                /\ trace' = [trace EXCEPT ![t].calls = Append(@, "dust")]
             \/ \E a \in DustFailures(local[t].dust) :
                   trace' = [trace EXCEPT ![t].calls = Append(@, "dust"),
                                          ![t].dust_error = a]
          /\ UNCHANGED <<local, account_writer>>
       \/ /\ FailTransfer(t, "ClientError")
          /\ UNCHANGED trace
    /\ UNCHANGED <<account_vars, locked_addresses, transfer_obj, input_addresses,
                   remainder_address, res, idle_vars>>

\* lines 1519-1535: the client is fetched and is_dust_allowed runs once per
\* address of the recorders
DustCheck(t) ==
    /\ pc[t] = "prepared"
    /\ \/ /\ DustFailures(local[t].dust) = {}
          /\ pc' = [pc EXCEPT ![t] = "checked"]
          /\ trace' = [trace EXCEPT ![t].calls = Append(@, "dust")]
          /\ UNCHANGED <<local, account_writer>>
       \/ \E a \in DustFailures(local[t].dust) :
          /\ FailTransfer(t, "DustError")
          /\ trace' = [trace EXCEPT ![t].calls = Append(@, "dust"),
                                    ![t].dust_error = a]
       \/ \* get_client or find_outputs fails
          /\ FailTransfer(t, "ClientError")
          /\ UNCHANGED trace
    /\ UNCHANGED <<account_vars, locked_addresses, transfer_obj, input_addresses,
                   remainder_address, res, idle_vars>>

\* a call of the signer or of the node that succeeds or fails
ExternalCall(t, from, to, call, error) ==
    /\ pc[t] = from
    /\ trace' = [trace EXCEPT ![t].calls = Append(@, call)]
    /\ \/ /\ pc' = [pc EXCEPT ![t] = to]
          /\ UNCHANGED <<local, account_writer>>
       \/ FailTransfer(t, error)
    /\ UNCHANGED <<account_vars, locked_addresses, transfer_obj, input_addresses,
                   remainder_address, res, idle_vars>>

\* lines 1537-1584: the essence is sealed and the signer's sign_message called
Sign(t) == ExternalCall(t, "checked", "signed", "sign", "SignerError")

\* line 1589: finish_pow
ProofOfWork(t) == ExternalCall(t, "signed", "pow_done", "pow", "ClientError")

\* line 1597: post_message
PostMessage(t) == ExternalCall(t, "pow_done", "posted", "post", "ClientError")

\* a fresh latest address is needed after the message was posted
NeedsNewAddress(obj, deposit) ==
    \/ LatestAddress = obj.address
    \/ deposit # <<>> /\ deposit[1] = LatestAddress

\* the message perform_transfer builds for the transfer t
BuiltMessage(t) ==
    Message(t, Range(Utxos(input_addresses[t])), SortedOutputs(local[t].essence_outputs))

\* lines 1599-1640: a new latest address if needed, the message is parsed
\* and appended, the account saved and the write lock dropped
FinishTransfer(t) ==
    /\ pc[t] = "posted"
    /\ LET fresh == IF NeedsNewAddress(transfer_obj[t], local[t].deposit)
                    THEN <<NewAddress>> ELSE <<>>
           with_fresh == addresses \o fresh
           with_message == Append(messages, BuiltMessage(t))
           appended == [trace EXCEPT ![t].appended =
                           @ \cup {fresh[i].address : i \in 1..Len(fresh)}]
       IN \/ \* get_new_address fails
             /\ fresh # <<>>
             /\ FailTransfer(t, "SignerError")
             /\ UNCHANGED <<addresses, messages, storage, trace>>
          \/ \* Message::from_iota_message fails
             /\ FailTransfer(t, "ClientError")
             /\ addresses' = with_fresh
             /\ trace' = appended
             /\ UNCHANGED <<messages, storage>>
          \/ \* account_.save() fails
             /\ FailTransfer(t, "StorageError")
             /\ addresses' = with_fresh
             /\ messages' = with_message
             /\ trace' = [appended EXCEPT ![t].calls = Append(@, "save")]
             /\ UNCHANGED storage
          \/ /\ addresses' = with_fresh
             /\ messages' = with_message
             /\ storage' = [addresses |-> with_fresh, messages |-> with_message]
             /\ trace' = [appended EXCEPT ![t].calls = Append(@, "save")]
             /\ local' = [local EXCEPT ![t].result = "Ok"]
             /\ pc' = [pc EXCEPT ![t] = "returned"]
             /\ account_writer' = 0
    /\ UNCHANGED <<outputs, node_outputs, locked_addresses, transfer_obj,
                   input_addresses, remainder_address, res, idle_vars>>

RECURSIVE ReleaseAll(_, _)
\* every input address is looked up in the locked addresses and removed
ReleaseAll(locked, released) ==
    IF released = <<>> THEN locked
    ELSE ReleaseAll(RemoveFirst(locked, Head(released)), Tail(released))

\* lines 1277-1286: the input addresses are unlocked and transfer() returns
\* what perform_transfer returned
Unlock(t) ==
    /\ pc[t] = "returned"
    /\ locked_addresses' = ReleaseAll(locked_addresses, AddressesOf(input_addresses[t]))
    /\ res' = [res EXCEPT ![t] = local[t].result]
    /\ pc' = [pc EXCEPT ![t] = "done"]
    \* the arguments and locals of the call go out of scope
    /\ trace' = [trace EXCEPT ![t].calls = <<>>, ![t].appended = {},
                              ![t].dust_error = NoAddress]
    /\ transfer_obj' = [transfer_obj EXCEPT ![t] = NoTransfer]
    /\ input_addresses' = [input_addresses EXCEPT ![t] = <<>>]
    /\ remainder_address' = [remainder_address EXCEPT ![t] = <<>>]
    /\ local' = [local EXCEPT ![t] = NoLocal]
    /\ UNCHANGED <<account_vars, account_writer, idle_vars>>

\* ------------------------------------------------------------------------
\* Output consolidation and cancellation
\* ------------------------------------------------------------------------
RECURSIVE Chunks(_, _)
\* slice::chunks(n)
Chunks(s, n) ==
    IF Len(s) <= n THEN (IF s = <<>> THEN <<>> ELSE <<s>>)
    ELSE <<SubSeq(s, 1, n)>> \o Chunks(SubSeq(s, n + 1, Len(s)), n)

\* an address gets consolidation transfers
NeedsConsolidation(a) == Len(AvailableOutputs(a)) >= OutputConsolidationThreshold

\* the self-transfers of one address, one per chunk of its available outputs
TransfersOfAddress(a) ==
    LET chunks == Chunks(AvailableOutputs(a), INPUT_OUTPUT_COUNT_MAX)
    IN [i \in 1..Len(chunks) |->
           Transfer(a, AvailableBalance(a), ChangeAddress,
                    <<[address |-> a, outputs |-> chunks[i]]>>)]

RECURSIVE ConsolidationTransfersFrom(_)
ConsolidationTransfersFrom(i) ==
    IF i > Len(addresses) THEN <<>>
    ELSE (IF NeedsConsolidation(addresses[i].address)
          THEN TransfersOfAddress(addresses[i].address)
          ELSE <<>>) \o ConsolidationTransfersFrom(i + 1)

\* SyncedAccount::get_output_consolidation_transfers
ConsolidationTransfers == ConsolidationTransfersFrom(1)

\* consolidate_outputs: one transfer task per consolidation transfer, handed
\* to try_join_all; the tasks take the lowest idle slots
ConsolidateOutputs ==
    /\ account_writer = 0
    /\ \A t \in Transfers : ~trace[t].by_poller
    /\ LET transfers == ConsolidationTransfers
           idle == SetToSeq({t \in Transfers : pc[t] = "idle"})
           slot(t) == CHOOSE i \in 1..Len(idle) : idle[i] = t
       IN /\ transfers # <<>>
          /\ Len(transfers) <= Len(idle)
          /\ LET used == {idle[i] : i \in 1..Len(transfers)}
             IN /\ pc' = [t \in Transfers |-> IF t \in used THEN "queued" ELSE pc[t]]
                /\ transfer_obj' = [t \in Transfers |->
                       IF t \in used THEN transfers[slot(t)] ELSE transfer_obj[t]]
                /\ trace' = [t \in Transfers |->
                       IF t \in used THEN [trace[t] EXCEPT !.by_poller = TRUE]
                       ELSE trace[t]]
    /\ UNCHANGED <<account_vars, locked_addresses, account_writer, input_addresses,
                   remainder_address, local, res, idle_vars>>

\* the consolidation tasks that have neither returned nor been dropped
RunningConsolidations ==
    {t \in Transfers :
        trace[t].by_poller /\ pc[t] \notin {"done", "cancelled", "panicked"}}

\* the futures of the running consolidation tasks are dropped: the guards
\* they hold are released and their locals dropped, nothing else of
\* transfer() runs; input_addresses keeps what a dropped task had locked
DropConsolidations ==
    LET dropped == RunningConsolidations
    IN /\ pc' = [t \in Transfers |-> IF t \in dropped THEN "cancelled" ELSE pc[t]]
       /\ account_writer' = IF account_writer \in dropped THEN 0 ELSE account_writer
       /\ transfer_obj' = [t \in Transfers |->
              IF t \in dropped THEN NoTransfer ELSE transfer_obj[t]]
       /\ remainder_address' = [t \in Transfers |->
              IF t \in dropped THEN <<>> ELSE remainder_address[t]]
       /\ local' = [t \in Transfers |-> IF t \in dropped THEN NoLocal ELSE local[t]]
       /\ trace' = [t \in Transfers |->
              IF t \in dropped
              THEN [trace[t] EXCEPT !.calls = <<>>, !.appended = {},
                                    !.dust_error = NoAddress]
              ELSE trace[t]]
       /\ UNCHANGED <<account_vars, locked_addresses, input_addresses, res, idle_vars>>

\* try_join_all returns at the first task that fails and drops the others
TryJoinAllFails ==
    /\ RunningConsolidations # {}
    /\ \E s \in Transfers :
          trace[s].by_poller /\ pc[s] = "done" /\ res[s] # "Ok"
    /\ DropConsolidations

\* start_polling: stop.recv() wins the select! and the tick future is dropped
StopPolling ==
    /\ RunningConsolidations # {}
    /\ DropConsolidations

\* ------------------------------------------------------------------------
\* Specification of the transfer engine
\* ------------------------------------------------------------------------
Next ==
    \/ \E t \in Transfers : UserTransfer(t)
    \/ \E t \in Transfers : ConsolidationTransfer(t)
    \/ \E t \in Transfers : PrepareTransfer(t)
    \/ \E t \in Transfers : DustCheck(t)
    \/ \E t \in Transfers : Sign(t)
    \/ \E t \in Transfers : ProofOfWork(t)
    \/ \E t \in Transfers : PostMessage(t)
    \/ \E t \in Transfers : FinishTransfer(t)
    \/ \E t \in Transfers : Unlock(t)
    \/ ConsolidateOutputs
    \/ TryJoinAllFails
    \/ StopPolling

Spec == Init /\ [][Next]_vars

\* ------------------------------------------------------------------------
\* Stand-alone calls of is_dust_allowed
\* ------------------------------------------------------------------------
\* n copies of x
Copies(n, x) == [i \in 1..n |-> x]

\* the numbers of unspent dust outputs tried
DustCounts ==
    (0..MaxDust) \cup {MaxDustOutputs - 1, MaxDustOutputs, MaxDustOutputs + 1}

\* the unspent dust allowance outputs tried
Allowances ==
    {<<>>, <<1000000>>, <<1000000, 1000000>>, <<10000000>>, <<11000000>>}

\* the output map of an address holding one plain output, n unspent and
\* s spent dust outputs, the unspent allowances and z spent allowances
OutputMap(a, n, s, allowances, z) ==
    <<Output(a, 2000000, "SignatureLockedSingle", FALSE)>>
    \o Copies(n, Output(a, 500000, "SignatureLockedSingle", FALSE))
    \o Copies(s, Output(a, 500000, "SignatureLockedSingle", TRUE))
    \o [i \in 1..Len(allowances) |->
           Output(a, allowances[i], "SignatureLockedDustAllowance", FALSE)]
    \o Copies(z, Output(a, 1000000, "SignatureLockedDustAllowance", TRUE))

\* what the node answers for an address: its unspent outputs
NodeView(map) ==
    LET unspent == SelectSeq(map, LAMBDA o : ~o.is_spent)
    IN [i \in 1..Len(unspent) |->
           [amount |-> unspent[i].amount, kind |-> unspent[i].kind]]

\* the pending deltas tried: (amount, created)
Delta == [amount : {500000, 1000000}, created : BOOLEAN]

DeltaLists == UNION {[1..n -> Delta] : n \in 0..MaxDeltas}

\* an account with the single address P0; the checked address is P0, or
\* EXT with the same outputs as seen by the node
InitDust ==
    /\ \E n \in DustCounts, s \in 0..1, al \in Allowances, z \in 0..1,
          a \in {P0, EXT}, ds \in DeltaLists :
          /\ outputs = OutputMap(P0, n, s, al, z)
          /\ node_outputs = NodeView(OutputMap(EXT, n, s, al, z))
          /\ addresses = <<Address(FALSE, 0, 2000000 + n * 500000)>>
          /\ storage = [addresses |-> addresses, messages |-> <<>>]
          /\ dust = [phase |-> "init", address |-> a,
                     deltas |-> [i \in 1..Len(ds) |->
                                    Recorder(ds[i].amount, a, ds[i].created)],
                     result |-> FALSE, previous |-> FALSE]
    /\ messages = <<>>
    /\ InitTransfers
    /\ SyncIdle
    /\ PollIdle

transfer_vars == <<locked_addresses, account_writer, pc, transfer_obj, input_addresses,
                   remainder_address, local, res, trace>>

\* is_dust_allowed(account, client, address, deltas)
CheckDust ==
    /\ dust.phase = "init"
    /\ dust' = [dust EXCEPT !.phase = "checked",
                            !.result = IsDustAllowed(dust.address, dust.deltas)]
    /\ UNCHANGED <<account_vars, transfer_vars, sync_vars, poll_vars>>

\* is_dust_allowed again, the deltas extended by the creation of an output
\* that is not dust
ExtendDust ==
    /\ dust.phase = "checked"
    /\ \E amount \in {DUST_ALLOWANCE_VALUE, 10 * DUST_ALLOWANCE_VALUE} :
          LET extended == Append(dust.deltas, Recorder(amount, dust.address, TRUE))
          IN dust' = [dust EXCEPT !.phase = "extended",
                                  !.deltas = extended,
                                  !.previous = dust.result,
                                  !.result = IsDustAllowed(dust.address, extended)]
    /\ UNCHANGED <<account_vars, transfer_vars, sync_vars, poll_vars>>

NextDust == CheckDust \/ ExtendDust

SpecDust == InitDust /\ [][NextDust]_vars

\* ------------------------------------------------------------------------
\* Properties of the transfer engine (under Spec)
\* ------------------------------------------------------------------------
\* the transfer has selected its inputs and has neither returned nor been dropped
InFlight(t) ==
    pc[t] \in {"selected", "prepared", "checked", "signed", "pow_done", "posted",
               "returned"}

\* the output ids in the selected input set of the transfer t
SelectedOutputs(t) == Range(Utxos(input_addresses[t]))

\* perform_transfer has returned an error to transfer()
PerformFailed(t) == pc[t] = "returned" /\ local[t].result # "Ok"

RECURSIVE LockedBy(_, _, _)
\* how often the transfers 1..t whose pc is in `states` have the address a
\* among their input addresses
LockedBy(a, states, t) ==
    IF t = 0 THEN 0
    ELSE (IF pc[t] \in states THEN Count(AddressesOf(input_addresses[t]), a) ELSE 0)
         + LockedBy(a, states, t - 1)

\* the addresses that are or may be locked
LockableAddresses ==
    {addresses[i].address : i \in 1..Len(addresses)} \cup Range(locked_addresses)

\* C1: no output is in the selected input sets of two transfers that are in
\* flight at the same time
NoSharedInput ==
    \A s \in Transfers : \A t \in Transfers :
        (s # t /\ InFlight(s) /\ InFlight(t))
            => SelectedOutputs(s) \cap SelectedOutputs(t) = {}

\* C2: the locked addresses are exactly the input addresses of the transfers
\* that selected inputs and have not returned; so a transfer that has
\* returned, with Ok or with an error of perform_transfer, has removed every
\* address it added, and once every started transfer has returned the locked
\* addresses are what they were at the start, namely none
ReturnReleasesLocked ==
    /\ \A a \in LockableAddresses :
          Count(locked_addresses, a)
              = LockedBy(a, {"selected", "prepared", "checked", "signed", "pow_done",
                             "posted", "returned", "cancelled", "panicked"},
                         NumTransfers)
    /\ (\A t \in Transfers : pc[t] \in {"idle", "done"}) => locked_addresses = <<>>

\* C2 witness: one transfer returned an error of the final save, another
\* returned Ok, and nothing is locked any more
ReturnReleasesLockedWitness ==
    /\ \E s \in Transfers : \E t \in Transfers :
          /\ pc[s] = "done" /\ res[s] = "StorageError"
          /\ pc[t] = "done" /\ res[t] = "Ok"
    /\ locked_addresses = <<>>

\* C3: the addresses locked by a transfer whose future was dropped are locked
\* only as often as the transfers still in flight hold them
CancelReleasesLocked ==
    \A t \in Transfers :
        pc[t] = "cancelled" =>
            \A a \in Range(AddressesOf(input_addresses[t])) :
                Count(locked_addresses, a)
                    = LockedBy(a, {"selected", "prepared", "checked", "signed",
                                   "pow_done", "posted", "returned", "panicked"},
                               NumTransfers)

\* C4: when transfer() has returned an error, the message list of the
\* account does not contain the message built by that transfer
FailedTransferLeavesNoMessage ==
    \A t \in Transfers :
        (pc[t] = "done" /\ res[t] \notin {"Ok", "none"})
            => ~(\E i \in 1..Len(messages) : messages[i].id = t)

\* C5: when perform_transfer has failed, no address generated during that
\* transfer is in the address list of the account
FailedTransferLeavesNoAddress ==
    \A t \in Transfers :
        PerformFailed(t) => \A a \in trace[t].appended : ~IsAccountAddress(a)

\* C6: a call of transfer() with an amount above the total balance is one
\* step that returns InsufficientFunds, locks no address, leaves the account
\* and its stored copy alone and calls neither the signer nor the node
ExceedingAmountStep ==
    \A t \in Transfers :
        (/\ pc[t] \in {"idle", "queued"}
         /\ pc'[t] \notin {"idle", "queued", "cancelled"}
         /\ trace'[t].asked.exceeds_balance)
            => /\ pc'[t] = "done"
               /\ res'[t] = "InsufficientFunds"
               /\ locked_addresses' = locked_addresses
               /\ input_addresses'[t] = <<>>
               /\ addresses' = addresses
               /\ messages' = messages
               /\ storage' = storage
               /\ trace'[t].calls = <<>>

InsufficientFundsReturnsEarly == [][ExceedingAmountStep]_vars

\* C6 witness: a transfer asked for more than the balance and returned
\* InsufficientFunds while another transfer holds its locked inputs
InsufficientFundsWitness ==
    \E s \in Transfers : \E t \in Transfers :
        /\ pc[t] = "done" /\ trace[t].asked.exceeds_balance
        /\ res[t] = "InsufficientFunds"
        /\ InFlight(s) /\ locked_addresses # <<>>

\* C7 as stated: a transfer whose AccountAddress strategy names an address
\* outside the account never gets past the checks and returns
\* InvalidRemainderValueAddress, whatever the destination
ForeignRemainderAlwaysRejected ==
    \A t \in Transfers :
        (pc[t] \notin {"idle", "queued"} /\ trace[t].asked.foreign_remainder_target)
            => (pc[t] = "done" /\ res[t] = "InvalidRemainderValueAddress")

\* C7 amended: a transfer whose AccountAddress strategy names an address
\* outside the account, whose destination is not an address of the account
\* and whose amount is within the total balance, never gets past the checks
\* (no input is locked) and returns InvalidRemainderValueAddress
ForeignRemainderRejected ==
    \A t \in Transfers :
        (/\ pc[t] \notin {"idle", "queued"}
         /\ trace[t].asked.foreign_remainder_target
         /\ ~trace[t].asked.own_destination
         /\ ~trace[t].asked.exceeds_balance)
            => (pc[t] = "done" /\ res[t] = "InvalidRemainderValueAddress"
                /\ input_addresses[t] = <<>>)

\* C7 witness: such a transfer was rejected while another transfer holds
\* its locked inputs
ForeignRemainderRejectedWitness ==
    \E s \in Transfers : \E t \in Transfers :
        /\ pc[t] = "done" /\ res[t] = "InvalidRemainderValueAddress"
        /\ trace[t].asked.foreign_remainder_target
        /\ ~trace[t].asked.own_destination
        /\ ~trace[t].asked.exceeds_balance
        /\ InFlight(s) /\ locked_addresses # <<>>

\* the last selected input address of the transfer t
LastInputAddress(t) == input_addresses[t][Len(input_addresses[t])].address

\* C8: a transfer to an address of the account runs with ReuseAddress
\* whatever strategy was supplied, and a remainder is deposited, as an
\* output of the essence, on the last selected input address
OwnDestinationReusesInput ==
    \A t \in Transfers :
        (/\ trace[t].asked.own_destination
         /\ pc[t] \in {"selected", "prepared", "checked", "signed", "pow_done",
                       "posted", "returned"})
            => /\ transfer_obj[t].remainder_value_strategy = ReuseAddress
               /\ (local[t].remainder_value > 0) =>
                      /\ local[t].deposit = <<LastInputAddress(t)>>
                      /\ \E i \in 1..Len(local[t].essence_outputs) :
                            local[t].essence_outputs[i]
                                = [address |-> LastInputAddress(t),
                                   amount |-> local[t].remainder_value]

\* C8 witness: a transfer to an own address that named a foreign
\* AccountAddress strategy was posted with one input and two outputs, the
\* remainder back on the input address
OwnDestinationReusesInputWitness ==
    \E t \in Transfers :
        /\ pc[t] = "posted"
        /\ trace[t].asked.own_destination
        /\ trace[t].asked.foreign_remainder_target
        /\ ~trace[t].by_poller
        /\ Len(input_addresses[t]) = 1
        /\ local[t].remainder_value > 0
        /\ Len(local[t].essence_outputs) = 2
        /\ local[t].deposit = <<input_addresses[t][1].address>>

\* the transfer t puts a non-zero value below DUST_ALLOWANCE_VALUE back on
\* one of its input addresses
LeavesDustOnSource(t) ==
    /\ local[t].remainder_value > 0
    /\ local[t].remainder_value < DUST_ALLOWANCE_VALUE
    /\ local[t].deposit # <<>>
    /\ Contains(AddressesOf(input_addresses[t]), local[t].deposit[1])

UnspentOutputsOf(address) ==
    IF IsAccountAddress(address)
    THEN SelectSeq([i \in 1..Cardinality(DOMAIN outputs) |-> outputs[i]],
                   LAMBDA o : o.address = address /\ ~o.is_spent)
    ELSE node_outputs

\* k: the number of unspent dust outputs of the address
UnspentDustOutputs(address) ==
    Len(SelectSeq(UnspentOutputsOf(address),
                  LAMBDA o : /\ o.kind = "SignatureLockedSingle"
                             /\ o.amount < DUST_ALLOWANCE_VALUE))

\* B: the sum of the unspent dust allowance outputs of the address
UnspentDustAllowance(address) ==
    SumOutputs(SelectSeq(UnspentOutputsOf(address),
                         LAMBDA o : o.kind = "SignatureLockedDustAllowance"))

\* C9: with the creation of one dust output as the only delta, the check
\* answers Ok exactly if k + 1 <= min(floor(B / 100000), 100)
DustLimitExact ==
    (dust.phase = "checked" /\ dust.deltas = <<Recorder(500000, dust.address, TRUE)>>)
        => (dust.result <=>
                UnspentDustOutputs(dust.address) + 1
                    <= Min(UnspentDustAllowance(dust.address) \div 100000, 100))

\* C10: if the check answered Ok for the deltas, it answers Ok for the
\* deltas extended by the creation of an output of at least
\* DUST_ALLOWANCE_VALUE
DustMonotonic ==
    (dust.phase = "extended" /\ dust.previous) => dust.result

\* C10 witness: the check answered Ok on an address with dust outputs for
\* deltas that create dust, and Ok again for the extended deltas
DustMonotonicWitness ==
    /\ dust.phase = "extended" /\ dust.previous /\ dust.result
    /\ UnspentDustOutputs(dust.address) > 0
    /\ \E i \in 1..(Len(dust.deltas) - 1) :
          dust.deltas[i].created /\ dust.deltas[i].amount < DUST_ALLOWANCE_VALUE
    /\ dust.deltas[Len(dust.deltas)].amount >= DUST_ALLOWANCE_VALUE


\* ------------------------------------------------------------------------
\* Account synchronisation (account/sync/mod.rs)
\* ------------------------------------------------------------------------
\* number of calls of AccountSynchronizer::execute on the account, numbered
\* in the order they start
NumSyncs == 2

Syncs == 1..NumSyncs

\* gap limit of AccountSynchronizer::new when the latest address has index 0
GapLimitFresh == 10

\* gap limit of AccountSynchronizer::new otherwise
GapLimitLatest == 1

\* the outputs the ledger may come to hold, by output id: the address, the
\* amount and the message that created each
LedgerOutputs ==
    <<[address |-> P0, amount |-> 1000000, message_id |-> 1],
      [address |-> I0, amount |-> 3000000, message_id |-> 1]>>

OutputIds == DOMAIN LedgerOutputs

MessageIds == {LedgerOutputs[id].message_id : id \in OutputIds}

\* Option<bool> of Message::confirmed and SyncedMessage::confirmed
ConfirmedNone == "None"

ConfirmedTrue == "Some(true)"

ConfirmedFalse == "Some(false)"

\* SyncedMessage, and the Message parsed from it by parse_messages with
\* with_confirmed(new_message.confirmed)
SyncedMessage(id, confirmed) == [id |-> id, confirmed |-> confirmed]

\* AddressBuilder: the wrapper, the balance and the output map (the set of
\* AddressOutput, one per output id)
AddressBuilder(address, balance, address_outputs) ==
    [address |-> address, balance |-> balance, outputs |-> address_outputs]

\* the ids of S in increasing order, the order the node lists outputs in
Ascending(S) ==
    IF S = {} THEN <<>>
    ELSE CHOOSE q \in [1..Cardinality(S) -> S] :
            \A i, j \in 1..Cardinality(S) : i < j => q[i] < q[j]

RECURSIVE Flatten(_)
\* Vec::extend over a list of lists
Flatten(lists) ==
    IF lists = <<>> THEN <<>> ELSE Head(lists) \o Flatten(Tail(lists))

\* client.get_address().outputs(address, include_spent): the ids of the
\* outputs of the address (fewer than the 1000 of a full page)
GetAddressOutputs(address, fetch_spent_outputs) ==
    {id \in OutputIds :
        /\ LedgerOutputs[id].address = address
        /\ \/ ledger.outputs[id] = "unspent"
           \/ fetch_spent_outputs /\ ledger.outputs[id] = "spent"}

RECURSIVE SumUnspent(_)
\* sum of the amounts of the outputs of a set that are not spent
SumUnspent(S) ==
    IF S = {} THEN 0
    ELSE LET o == CHOOSE x \in S : TRUE
         IN (IF o.is_spent THEN 0 ELSE o.amount) + SumUnspent(S \ {o})

\* client.get_output and AddressOutput::from_output_response
GetOutput(id) ==
    [id |-> id, address |-> LedgerOutputs[id].address,
     amount |-> LedgerOutputs[id].amount,
     message_id |-> LedgerOutputs[id].message_id,
     is_spent |-> ledger.outputs[id] = "spent"]

\* client.get_address().balance(address)
NodeBalance(address) ==
    SumUnspent({GetOutput(id) : id \in GetAddressOutputs(address, FALSE)})

\* get_message_and_metadata: the confirmation state of the metadata, None
\* when the node has no metadata or no inclusion state for the message
MetadataConfirmed(message_id) ==
    IF ledger.metadata[message_id] = "included" THEN ConfirmedTrue ELSE ConfirmedNone

\* HashMap::insert of the found outputs into an output map
InsertOutputs(address_outputs, found) ==
    {o \in address_outputs : \A f \in found : f.id # o.id} \cup found

\* the locally known output is spent: its details are not fetched again
KnownSpent(address_outputs, id) ==
    \E o \in address_outputs : o.id = id /\ o.is_spent

\* the confirmation state of the message is already known to the account
KnownConfirmation(account_messages, message_id) ==
    \E i \in 1..Len(account_messages) :
        /\ account_messages[i].id = message_id
        /\ account_messages[i].confirmed # ConfirmedNone

\* the message found with an output: confirmed when the output is spent
FoundMessage(account_messages, output) ==
    IF KnownConfirmation(account_messages, output.message_id) THEN <<>>
    ELSE <<SyncedMessage(output.message_id,
                         IF output.is_spent THEN ConfirmedTrue
                         ELSE MetadataConfirmed(output.message_id))>>

\* sync_address: the balance, the output map and the messages found
SyncAddress(account_messages, address_outputs, address) ==
    LET ids == Ascending({id \in GetAddressOutputs(address, account.sync_spent_outputs) :
                             ~KnownSpent(address_outputs, id)})
        found == [i \in 1..Len(ids) |-> GetOutput(ids[i])]
    IN [balance |-> NodeBalance(address),
        outputs |-> InsertOutputs(address_outputs, Range(found)),
        messages |-> Flatten([i \in 1..Len(ids) |->
                                 FoundMessage(account_messages, found[i])])]

\* the requests of sync_address one of which the node may fail to answer:
\* the output ids of the address, its balance, the details of an output,
\* the body of a message (with 404 or another error) and its metadata
NodeFaults == {"none", "outputs", "balance", "output", "message_404", "message", "metadata"}

\* get_message_and_metadata when the node fails as fault tells: Ok(None)
\* for a 404 of the body, Err for another error of the body, and the
\* default metadata (confirmed: None) for an error of the metadata
GetMessageAndMetadata(message_id, fault) ==
    CASE fault = "message_404" -> [result |-> "None", confirmed |-> ConfirmedNone]
      [] fault = "message" -> [result |-> "Err", confirmed |-> ConfirmedNone]
      [] fault = "metadata" -> [result |-> "Some", confirmed |-> ConfirmedNone]
      [] OTHER -> [result |-> "Some", confirmed |-> MetadataConfirmed(message_id)]

\* sync_address when the node fails as fault tells: the requests made, the
\* result and, when it is Ok, the balance, the output map and the messages
SyncAddressWithFault(account_messages, address_outputs, address, fault) ==
    LET ids == Ascending({id \in GetAddressOutputs(address, account.sync_spent_outputs) :
                             ~KnownSpent(address_outputs, id)})
        found == [i \in 1..Len(ids) |-> GetOutput(ids[i])]
        NotKnown(o) == ~KnownConfirmation(account_messages, o.message_id)
        asked == SelectSeq(found, NotKnown)
        answers == [i \in 1..Len(asked) |-> GetMessageAndMetadata(asked[i].message_id, fault)]
        Answered(i) == answers[i].result = "Some"
        err == \/ fault \in {"outputs", "balance"}
               \/ fault = "output" /\ ids # <<>>
               \/ \E i \in 1..Len(asked) : answers[i].result = "Err"
    IN [requests |-> {"outputs"}
                     \cup (IF fault # "outputs" THEN {"balance"} ELSE {})
                     \cup (IF fault \notin {"outputs", "balance"} /\ ids # <<>>
                           THEN {"output"} ELSE {})
                     \cup (IF fault \notin {"outputs", "balance", "output"} /\ asked # <<>>
                           THEN {"message"} ELSE {})
                     \cup (IF fault \notin {"outputs", "balance", "output", "message", "message_404"}
                              /\ asked # <<>>
                           THEN {"metadata"} ELSE {}),
        result |-> IF err THEN "Err" ELSE "Ok",
        balance |-> IF err THEN 0 ELSE NodeBalance(address),
        outputs |-> IF err THEN address_outputs
                    ELSE InsertOutputs(address_outputs, Range(found)),
        messages |-> IF err THEN <<>>
                     ELSE [k \in 1..Cardinality({i \in 1..Len(asked) : Answered(i)}) |->
                              LET i == CHOOSE i \in 1..Len(asked) :
                                          /\ Answered(i)
                                          /\ Cardinality({j \in 1..i : Answered(j)}) = k
                              IN SyncedMessage(asked[i].message_id,
                                               IF asked[i].is_spent THEN ConfirmedTrue
                                               ELSE answers[i].confirmed)]]

\* sync_address_list: every address synced, the change addresses without
\* outputs left out
SyncAddressList(list, account_messages) ==
    LET synced == [i \in 1..Len(list) |->
                      SyncAddress(account_messages, list[i].outputs, list[i].address)]
        updated == [i \in 1..Len(list) |->
                       AddressBuilder(list[i].address, synced[i].balance,
                                      synced[i].outputs)]
        Kept(a) == ~(a.address.internal /\ a.outputs = {})
    IN [addresses |-> SelectSeq(updated, Kept),
        messages |-> Flatten([i \in 1..Len(list) |-> synced[i].messages])]


\* the account has the address
HasAddress(acct, address) ==
    \E i \in 1..Len(acct.addresses) : acct.addresses[i].address = address

\* the output map the account holds for the address, empty when it has none
OutputsOfAddress(acct, address) ==
    IF HasAddress(acct, address)
    THEN (CHOOSE a \in Range(acct.addresses) : a.address = address).outputs
    ELSE {}

\* get_address_for_sync: the account's address, or a generated one unless
\* the signer (stronghold) is locked
GetAddressForSync(acct, index, internal, locked) ==
    IF HasAddress(acct, AccountAddress(internal, index)) \/ ~locked
    THEN <<AccountAddress(internal, index)>>
    ELSE <<>>

\* the public address of the index and, when it is there, its change address
GeneratedPair(acct, index, locked) ==
    IF GetAddressForSync(acct, index, FALSE, locked) = <<>> THEN <<>>
    ELSE GetAddressForSync(acct, index, FALSE, locked)
            \o GetAddressForSync(acct, index, TRUE, locked)

\* one batch of sync_addresses: the addresses of gap_limit indexes
GeneratedIotaAddresses(acct, address_index, gap_limit, locked) ==
    Flatten([k \in 1..gap_limit |-> GeneratedPair(acct, address_index + k - 1, locked)])

\* address generation was skipped for an address of the batch
AddressGenerationLocked(acct, address_index, gap_limit, locked) ==
    \E k \in 1..gap_limit : Len(GeneratedPair(acct, address_index + k - 1, locked)) < 2

RECURSIVE SyncAddresses(_, _, _, _, _)
\* sync_addresses: batches of gap_limit indexes until a batch finds neither
\* messages nor outputs, or the signer is locked
SyncAddresses(acct, address_index, gap_limit, locked, done) ==
    LET generated == GeneratedIotaAddresses(acct, address_index, gap_limit, locked)
        addresses_to_sync ==
            [k \in 1..Len(generated) |->
                AddressBuilder(generated[k], 0, OutputsOfAddress(acct, generated[k]))]
        curr == SyncAddressList(addresses_to_sync, acct.messages)
        is_empty == /\ curr.messages = <<>>
                    /\ \A k \in 1..Len(curr.addresses) : curr.addresses[k].outputs = {}
        all == [addresses |-> done.addresses \o curr.addresses,
                messages |-> done.messages \o curr.messages]
    IN IF is_empty \/ AddressGenerationLocked(acct, address_index, gap_limit, locked)
       THEN all
       ELSE SyncAddresses(acct, address_index + gap_limit, gap_limit, locked, all)

\* sync_messages, one address: a locally spent output is kept as it is
SweepAddress(acct, a) ==
    LET ids == Ascending(GetAddressOutputs(a.address, acct.sync_spent_outputs))
        found == [i \in 1..Len(ids) |->
                     IF KnownSpent(a.outputs, ids[i])
                     THEN CHOOSE o \in a.outputs : o.id = ids[i]
                     ELSE GetOutput(ids[i])]
    IN [address |-> AddressBuilder(a.address, NodeBalance(a.address),
                                   InsertOutputs(a.outputs, Range(found))),
        messages |-> Flatten([i \in 1..Len(ids) |->
                                 FoundMessage(acct.messages, found[i])])]

\* sync_messages: every address of the account that is not in skip_addresses
SyncMessages(acct, skip_addresses) ==
    LET Swept(a) == \A k \in 1..Len(skip_addresses) : skip_addresses[k].address # a.address
        todo == SelectSeq(acct.addresses, Swept)
        synced == [i \in 1..Len(todo) |-> SweepAddress(acct, todo[i])]
    IN [addresses |-> [i \in 1..Len(todo) |-> synced[i].address],
        messages |-> Flatten([i \in 1..Len(todo) |-> synced[i].messages])]

RECURSIVE AddressesToSave(_, _, _, _)
\* perform_sync: of every run of unused addresses only the first is saved,
\* unless a used address follows the run
AddressesToSave(found_addresses, addresses_to_save, ignored_addresses, previous_address_is_unused) ==
    IF found_addresses = <<>> THEN addresses_to_save
    ELSE LET found_address == Head(found_addresses)
             address_is_unused == found_address.outputs = {}
         IN IF previous_address_is_unused
            THEN IF address_is_unused
                 THEN AddressesToSave(Tail(found_addresses), addresses_to_save,
                                      Append(ignored_addresses, found_address),
                                      address_is_unused)
                 ELSE AddressesToSave(Tail(found_addresses),
                                      (addresses_to_save \o ignored_addresses)
                                          \o <<found_address>>,
                                      <<>>, address_is_unused)
            ELSE AddressesToSave(Tail(found_addresses),
                                 Append(addresses_to_save, found_address),
                                 ignored_addresses, address_is_unused)

\* AccountSynchronizeStep lists: SyncAddresses(None) and SyncMessages (the
\* default), SyncAddresses(Some(list)), SyncMessages alone
DefaultSteps == [addresses |-> "discover", list |-> {}, messages |-> TRUE]

ListSteps(list) == [addresses |-> "list", list |-> list, messages |-> FALSE]

SweepSteps == [addresses |-> "skip", list |-> {}, messages |-> TRUE]

\* perform_sync, the explicit list: the listed addresses of the account,
\* rebuilt with balance 0 and an empty output map
ListedAddresses(acct, list) ==
    LET Listed(a) == a.address \in list
        listed == SelectSeq(acct.addresses, Listed)
    IN [k \in 1..Len(listed) |-> AddressBuilder(listed[k].address, 0, {})]

\* perform_sync: the messages found that the account does not hold with the
\* same confirmation state
NotHeld(acct, found_messages) ==
    LET New(m) == \A i \in 1..Len(acct.messages) :
                     ~(acct.messages[i].id = m.id /\ acct.messages[i].confirmed = m.confirmed)
    IN SelectSeq(found_messages, New)

\* perform_sync: SyncedAccountData
PerformSync(acct, address_index, gap_limit, steps, locked) ==
    LET nothing == [addresses |-> <<>>, messages |-> <<>>]
        found == CASE steps.addresses = "list" ->
                        SyncAddressList(ListedAddresses(acct, steps.list), acct.messages)
                   [] steps.addresses = "discover" ->
                        SyncAddresses(acct, address_index, gap_limit, locked, nothing)
                   [] OTHER -> nothing
        swept == IF steps.messages THEN SyncMessages(acct, found.addresses) ELSE nothing
    IN [messages |-> NotHeld(acct, found.messages) \o swept.messages,
        addresses |-> AddressesToSave(found.addresses \o swept.addresses,
                                      <<>>, <<>>, FALSE)]


\* Account::latest_address: the public address with the highest key index
LatestAddressOf(acct) ==
    LET pub == {a \in Range(acct.addresses) : ~a.address.internal}
    IN (CHOOSE a \in pub : \A b \in pub : b.address.key_index <= a.address.key_index).address

RECURSIVE AppendAddresses(_, _)
\* Account::append_addresses: an address the account has is replaced by the
\* synced one, any other is pushed
AppendAddresses(list, new) ==
    IF new = <<>> THEN list
    ELSE LET a == Head(new)
             at == {i \in 1..Len(list) : list[i].address = a.address}
         IN AppendAddresses(IF at = {} THEN Append(list, a)
                            ELSE [i \in 1..Len(list) |-> IF i \in at THEN a ELSE list[i]],
                            Tail(new))

RECURSIVE AppendMessages(_, _)
\* Account::append_messages: a message the account has (by id) is replaced,
\* any other is pushed
AppendMessages(list, new) ==
    IF new = <<>> THEN list
    ELSE LET m == Head(new)
             at == {i \in 1..Len(list) : list[i].id = m.id}
         IN AppendMessages(IF at = {} THEN Append(list, m)
                           ELSE [i \in 1..Len(list) |-> IF i \in at THEN m ELSE list[i]],
                           Tail(new))

\* `x as u64` of an i64: a negative x wraps to 2^64 + x. 2^64 is beyond the
\* integers of the checker, so the u64 is kept as the number of times 2^64 is
\* added (wrapped) and the rest (rest): its value is wrapped * 2^64 + rest
AsU64(x) == [wrapped |-> IF x < 0 THEN 1 ELSE 0, rest |-> x]

\* i64::abs
Abs(x) == IF x < 0 THEN 0 - x ELSE x

\* get_events, one address: the events of the outputs that are new (only
\* when spent outputs are synced), then the rest of the balance change
\* with no message id (0); a BalanceChange is its kind and its u64 amount
AddressEvents(before, after, sync_spent) ==
    LET before_balance == IF before = <<>> THEN 0 ELSE before[1].balance
        before_outputs == IF before = <<>> THEN {} ELSE {o.id : o \in before[1].outputs}
        new_ids == IF sync_spent
                   THEN Ascending({o.id : o \in after.outputs} \ before_outputs)
                   ELSE <<>>
        OutputOf(id) == CHOOSE o \in after.outputs : o.id = id
        Signed(o) == IF o.is_spent THEN 0 - o.amount ELSE o.amount
        output_events == [i \in 1..Len(new_ids) |->
                             [address |-> after.address,
                              balance_change |->
                                  [kind |-> IF OutputOf(new_ids[i]).is_spent
                                            THEN "spent" ELSE "received",
                                   amount |-> AsU64(OutputOf(new_ids[i]).amount)],
                              message_id |-> OutputOf(new_ids[i]).message_id]]
        output_change_balance ==
            SumUnspent({[id |-> id, is_spent |-> FALSE, amount |-> Signed(OutputOf(id))] :
                           id \in Range(new_ids)})
        balance_change == after.balance - before_balance
    IN IF after.balance = before_balance THEN <<>>
       ELSE output_events
              \o (IF new_ids = <<>> \/ output_change_balance # balance_change
                  THEN <<[address |-> after.address,
                          balance_change |->
                              IF balance_change > 0
                              THEN [kind |-> "received",
                                    amount |-> AsU64(balance_change - output_change_balance)]
                              ELSE [kind |-> "spent",
                                    amount |-> AsU64(Abs(balance_change
                                                           - output_change_balance))],
                          message_id |-> 0]>>
                  ELSE <<>>)

\* AccountSynchronizer::get_events
GetEvents(addresses_before_sync, addresses_after, new_messages, confirmation_changed_messages, sync_spent) ==
    LET Before(a) == LET Same(b) == b.address = a.address
                     IN SelectSeq(addresses_before_sync, Same)
    IN [balance_change_events |->
            Flatten([i \in 1..Len(addresses_after) |->
                        AddressEvents(Before(addresses_after[i]), addresses_after[i],
                                      sync_spent)]),
        new_transaction_events |-> new_messages,
        confirmation_change_events |->
            [i \in 1..Len(confirmation_changed_messages) |->
                [message |-> confirmation_changed_messages[i],
                 confirmed |-> confirmation_changed_messages[i].confirmed = ConfirmedTrue]]]

NoEvents ==
    [balance_change_events |-> <<>>, new_transaction_events |-> <<>>,
     confirmation_change_events |-> <<>>]

NoSyncedData == [addresses |-> <<>>, messages |-> <<>>]

\* a sync task that has not started
IdleSynchronizer ==
    [pc |-> "idle", steps |-> DefaultSteps, locked |-> FALSE, data |-> NoSyncedData,
     ledger_changed |-> FALSE, overtaken |-> FALSE, skip_persistence |-> FALSE,
     lock |-> "none"]

\* no sync has completed
NoSync ==
    [steps |-> [addresses |-> "none", list |-> {}, messages |-> FALSE],
     locked |-> FALSE, ledger_changed |-> FALSE, alone |-> FALSE,
     skip_persistence |-> FALSE, events |-> NoEvents]

\* sync_address has not been called on its own
NoAddressSync == [called |-> FALSE]

\* an account that was never synced nor saved by a sync: last_synced_at is
\* None (0)
NeverSynced == [last_synced_at |-> 0, saved |-> <<>>]

\* a fresh account: the first public address, no messages
InitSync ==
    /\ ledger = [outputs |-> [id \in OutputIds |-> "absent"],
                 metadata |-> [m \in MessageIds |-> "unknown"]]
    /\ \E spent \in BOOLEAN :
          account = [addresses |-> <<AddressBuilder(P0, 0, {})>>, messages |-> <<>>,
                     sync_spent_outputs |-> spent]
    /\ synchronizer = [s \in Syncs |-> IdleSynchronizer]
    /\ last_sync = NoSync
    /\ saved_state = NeverSynced
    /\ synced_address = NoAddressSync
    /\ addresses = <<>>
    /\ outputs = <<>>
    /\ node_outputs = <<>>
    /\ storage = [addresses |-> <<>>, messages |-> <<>>]
    /\ messages = <<>>
    /\ InitTransfers
    /\ dust = NoDust
    /\ PollIdle

engine_vars == <<account_vars, transfer_vars, dust, poll_vars>>

\* a change of the ledger is noted for the syncs that have read it
LedgerChanges ==
    /\ synchronizer' = [s \in Syncs |->
           [synchronizer[s] EXCEPT !.ledger_changed = synchronizer[s].pc = "fetched"]]
    /\ last_sync' = [last_sync EXCEPT !.ledger_changed = TRUE]
    /\ UNCHANGED <<account, saved_state, synced_address, engine_vars>>

\* the ledger: a transaction creates an output of an account address
Receive(id) ==
    /\ ledger.outputs[id] = "absent"
    /\ ledger' = [ledger EXCEPT !.outputs[id] = "unspent"]
    /\ LedgerChanges

\* the ledger: a transaction consumes an output
Spend(id) ==
    /\ ledger.outputs[id] = "unspent"
    /\ ledger' = [ledger EXCEPT !.outputs[id] = "spent"]
    /\ LedgerChanges

\* the node: the metadata of a message becomes available
Include(m) ==
    /\ ledger.metadata[m] = "unknown"
    /\ \E id \in OutputIds : LedgerOutputs[id].message_id = m /\ ledger.outputs[id] # "absent"
    /\ ledger' = [ledger EXCEPT !.metadata[m] = "included"]
    /\ LedgerChanges

\* the step lists a sync is started with, and whether the signer is locked
SyncChoices ==
    {[steps |-> DefaultSteps, locked |-> FALSE], [steps |-> DefaultSteps, locked |-> TRUE],
     [steps |-> ListSteps({P0, I0}), locked |-> FALSE],
     [steps |-> SweepSteps, locked |-> FALSE]}

\* AccountSynchronizer::skip_persistence, on the synchronizer of the next call
SkipPersistence(s) ==
    /\ synchronizer[s].pc = "idle"
    /\ \A r \in Syncs : r < s => synchronizer[r].pc # "idle"
    /\ ~synchronizer[s].skip_persistence
    /\ synchronizer' = [synchronizer EXCEPT ![s].skip_persistence = TRUE]
    /\ UNCHANGED <<ledger, account, last_sync, saved_state, synced_address, engine_vars>>

\* AccountSynchronizer::new and get_new_history: perform_sync under the
\* account's read lock
GetNewHistory(s, steps, locked) ==
    /\ synchronizer[s].pc = "idle"
    /\ \A r \in Syncs : r < s => synchronizer[r].pc # "idle"
    /\ LET address_index == LatestAddressOf(account).key_index
           gap_limit == IF address_index = 0 THEN GapLimitFresh ELSE GapLimitLatest
       IN synchronizer' = [synchronizer EXCEPT ![s] =
              [pc |-> "fetched", steps |-> steps, locked |-> locked,
               data |-> PerformSync(account, address_index, gap_limit, steps, locked),
               ledger_changed |-> FALSE, overtaken |-> FALSE,
               skip_persistence |-> synchronizer[s].skip_persistence,
               lock |-> "none"]]
    /\ UNCHANGED <<ledger, account, last_sync, saved_state, synced_address, engine_vars>>

\* get_new_history, its start: self.account_handle.read().await; the guard
\* is a temporary of the call of perform_sync and lives until perform_sync
\* has returned, so the requests to the node are made under it
BeginHistory(s, steps, locked) ==
    /\ synchronizer[s].pc = "idle"
    /\ \A r \in Syncs : r < s => synchronizer[r].pc # "idle"
    /\ synchronizer' = [synchronizer EXCEPT ![s].pc = "reading", ![s].steps = steps,
                                            ![s].locked = locked, ![s].lock = "read"]
    /\ UNCHANGED <<ledger, account, last_sync, saved_state, synced_address, engine_vars>>

\* get_new_history, its end: perform_sync has its answers from the node and
\* returns, the read guard is dropped
EndHistory(s) ==
    /\ synchronizer[s].pc = "reading"
    /\ LET address_index == LatestAddressOf(account).key_index
           gap_limit == IF address_index = 0 THEN GapLimitFresh ELSE GapLimitLatest
       IN synchronizer' = [synchronizer EXCEPT ![s] =
              [pc |-> "fetched", steps |-> synchronizer[s].steps,
               locked |-> synchronizer[s].locked,
               data |-> PerformSync(account, address_index, gap_limit,
                                    synchronizer[s].steps, synchronizer[s].locked),
               ledger_changed |-> FALSE, overtaken |-> FALSE,
               skip_persistence |-> synchronizer[s].skip_persistence,
               lock |-> "none"]]
    /\ UNCHANGED <<ledger, account, last_sync, saved_state, synced_address, engine_vars>>

\* execute that appends whether or not skip_persistence is set
PersistAlways(acct, data, parsed_messages, skip_persistence) ==
    [acct EXCEPT !.addresses = AppendAddresses(@, data.addresses),
                 !.messages = AppendMessages(@, parsed_messages)]

\* execute: if !self.skip_persistence, append_addresses and append_messages
Persist(acct, data, parsed_messages, skip_persistence) ==
    IF skip_persistence THEN acct
    ELSE [acct EXCEPT !.addresses = AppendAddresses(@, data.addresses),
                      !.messages = AppendMessages(@, parsed_messages)]

\* Account::save: the copy of the account the storage holds
SavedAccount(acct, last_synced_at) ==
    [addresses |-> acct.addresses, messages |-> acct.messages, last_synced_at |-> last_synced_at]

\* AccountSynchronizer::execute after get_new_history: under the account's
\* write lock the data is appended, the time of the call (s) is set as
\* last_synced_at, the account is saved and the events are emitted
Execute(s) ==
    /\ synchronizer[s].pc = "fetched"
    /\ \A r \in Syncs : synchronizer[r].lock = "none"
    /\ LET data == synchronizer[s].data
           messages_before_sync == account.messages
           addresses_before_sync == account.addresses
           parsed_messages == data.messages
           skip_persistence == synchronizer[s].skip_persistence
           appended == Persist(account, data, parsed_messages, skip_persistence)
           New(m) == \A i \in 1..Len(messages_before_sync) :
                        messages_before_sync[i].id # m.id
           Changed(m) == \E i \in 1..Len(messages_before_sync) :
                            /\ messages_before_sync[i].id = m.id
                            /\ messages_before_sync[i].confirmed # m.confirmed
       IN /\ account' = appended
          /\ saved_state' = IF skip_persistence THEN saved_state
                          ELSE [last_synced_at |-> s, saved |-> <<SavedAccount(appended, s)>>]
          /\ synchronizer' = [r \in Syncs |->
                 IF r = s THEN [IdleSynchronizer EXCEPT !.pc = "done"]
                 ELSE [synchronizer[r] EXCEPT
                          !.overtaken = @ \/ (synchronizer[r].pc = "fetched"
                                                /\ appended # account)]]
          /\ last_sync' = [steps |-> synchronizer[s].steps,
                           locked |-> synchronizer[s].locked,
                           ledger_changed |-> synchronizer[s].ledger_changed,
                           alone |-> ~synchronizer[s].overtaken,
                           skip_persistence |-> skip_persistence,
                           events |-> GetEvents(addresses_before_sync, appended.addresses,
                                                SelectSeq(parsed_messages, New),
                                                SelectSeq(parsed_messages, Changed),
                                                account.sync_spent_outputs)]
    /\ UNCHANGED <<ledger, synced_address, engine_vars>>

NextSync ==
    \/ \E id \in OutputIds : Receive(id)
    \/ \E id \in OutputIds : Spend(id)
    \/ \E m \in MessageIds : Include(m)
    \/ \E s \in Syncs, c \in SyncChoices : GetNewHistory(s, c.steps, c.locked)
    \/ \E s \in Syncs : Execute(s)

SpecSync == InitSync /\ [][NextSync]_vars

\* an address has no outputs in its map
Unused(a) == a.outputs = {}


\* ------------------------------------------------------------------------
\* Properties of account synchronisation (under SpecSync)
\* ------------------------------------------------------------------------
\* some call of execute has completed
SyncCompleted == \E s \in Syncs : synchronizer[s].pc = "done"

\* C16: after every completed sync the balance stored for every address of
\* the account is the sum of the amounts of the outputs of its output map
\* that are not marked spent
BalanceIsSumOfUnspent ==
    SyncCompleted =>
        \A i \in 1..Len(account.addresses) :
            account.addresses[i].balance = SumUnspent(account.addresses[i].outputs)


\* the output maps of acct record the output as spent
RecordedSpent(acct, id) ==
    \E i \in 1..Len(acct.addresses) :
        \E o \in acct.addresses[i].outputs : o.id = id /\ o.is_spent

\* C15: an output that the output map of an account address records as
\* spent is never recorded as unspent again nor removed from the map by a
\* later sync, whichever path the sync takes
SpentStaysSpent ==
    [][\A id \in OutputIds :
          RecordedSpent(account, id) =>
              \E i \in 1..Len(account'.addresses) :
                  /\ account'.addresses[i].address = LedgerOutputs[id].address
                  /\ \E o \in account'.addresses[i].outputs : o.id = id /\ o.is_spent]_vars


\* the account holds the message with confirmed = Some(true)
HeldConfirmed(acct, id) ==
    \E i \in 1..Len(acct.messages) :
        acct.messages[i].id = id /\ acct.messages[i].confirmed = ConfirmedTrue

\* C13: a message whose local confirmed value is true never later has
\* confirmed equal to false or unknown, however the syncs of the account
\* interleave
ConfirmedStaysConfirmed ==
    [][\A id \in MessageIds : HeldConfirmed(account, id) => HeldConfirmed(account', id)]_vars

\* the last sync that completed ran address discovery with the signer unlocked
DiscoveryCompleted ==
    last_sync.steps = DefaultSteps /\ ~last_sync.locked

\* the address list ends with exactly one unused address
EndsWithOneUnused(acct) ==
    LET n == Len(acct.addresses)
    IN /\ Unused(acct.addresses[n])
       /\ n > 1 => ~Unused(acct.addresses[n - 1])

\* C14: after a sync by address discovery that a locked signer did not
\* stop, the address list ends with exactly one unused address: an address
\* without outputs follows the last used address and is the only trailing one
GapLimitContract ==
    DiscoveryCompleted => EndsWithOneUnused(account)


\* call s completes a default sync that follows a completed default sync of
\* the same ledger, no other call changing the account in between
SecondRun(s) ==
    /\ synchronizer[s].pc = "fetched" /\ synchronizer'[s].pc = "done"
    /\ synchronizer[s].steps = DefaultSteps /\ last_sync.steps = DefaultSteps
    /\ synchronizer[s].locked = last_sync.locked
    /\ ~synchronizer[s].overtaken /\ last_sync.alone
    /\ ~synchronizer[s].ledger_changed /\ ~last_sync.ledger_changed

\* C12: a default sync run a second time, the ledger unchanged since the
\* first run, emits no balance-change, new-transaction or
\* confirmation-change event and leaves the addresses, outputs and messages
\* of the account as the first run left them
SecondSyncIsIdle ==
    [][\A s \in Syncs :
          SecondRun(s) => account' = account /\ last_sync'.events = NoEvents]_vars

\* ------------------------------------------------------------------------
\* The account manager: background polling, sync_accounts, account
\* discovery and retries (account_manager.rs)
\* ------------------------------------------------------------------------

\* account indexes 0..MaxAccountIndex can hold funds on the ledger
MaxAccountIndex == 1
\* an account holds at most MaxMessages messages; the node answers a retry
\* with an error once that many are held
MaxMessages == 3
\* number of explicit sync_accounts().execute() calls
NumCalls == 1

AccountIndexes == 0..MaxAccountIndex
\* the indexes an account of the store can have: discovery ends one past the funds
StoreIndexes == 0..(MaxAccountIndex + 1)
Calls == 1..NumCalls

\* Arc<Mutex<()>>: free, or held by the poller's tick or by an explicit call
NoHolder == [holder |-> "none", call |-> 0]
PollerHolds == [holder |-> "poller", call |-> 0]
CallerHolds(c) == [holder |-> "caller", call |-> c]

\* payloads: a transaction, or none (a promotion message carries none)
TransactionPayload == "Some(Transaction)"
NoPayload == "None"

\* an account of the store, as far as the manager looks at it: whether its
\* balance is positive, whether any address has outputs, its messages
ManagedAccount(index, has_balance, has_outputs, account_messages) ==
    [index |-> index, has_balance |-> has_balance, has_outputs |-> has_outputs,
     messages |-> account_messages]

\* AccountStore::len
StoreLen == Cardinality(DOMAIN store)

\* the highest account index of the store
HighestIndex(indexes) == CHOOSE i \in indexes : \A j \in indexes : j <= i

\* get_new_history of one account against the node: the balance is the
\* node's, outputs once found stay in the address' output map
SyncedAccountData(acct) ==
    [acct EXCEPT !.has_balance = acct.index \in node.funded,
                 !.has_outputs = acct.has_outputs \/ acct.index \in node.funded]

\* execute_internal and discover_accounts: an account is empty if every
\* address has balance 0 and no outputs
IsEmptyAccount(acct) == ~acct.has_balance /\ ~acct.has_outputs

RECURSIVE DiscoverAccounts(_, _, _)
\* discover_accounts: accounts are initialised and synced at index,
\* index + 1, ... until one is empty. `index` starts at the number of
\* accounts of the store. initialise_ok tells whether AccountInitialiser
\* accepts an index the store already has; its error ends the discovery
\* with Err.
DiscoverAccounts(index, initialise_ok, found) ==
    IF index \in DOMAIN store /\ ~initialise_ok
    THEN [found EXCEPT !.ok = FALSE, !.probes = Append(@, [index |-> index, outcome |-> "error"])]
    ELSE LET probe == SyncedAccountData(ManagedAccount(index, FALSE, FALSE, <<>>))
         IN IF IsEmptyAccount(probe)
            THEN [found EXCEPT !.probes = Append(@, [index |-> index, outcome |-> "empty"])]
            ELSE DiscoverAccounts(index + 1, initialise_ok,
                     [found EXCEPT !.probes = Append(@, [index |-> index, outcome |-> "used"]),
                                   !.synced_accounts = Append(@, probe)])

NoDiscovery == [ok |-> TRUE, probes |-> <<>>, synced_accounts |-> <<>>]

RECURSIVE InsertAccounts(_, _)
\* accounts.insert(account.id().clone(), account_handle.clone())
InsertAccounts(accounts, discovered) ==
    IF discovered = <<>> THEN accounts
    ELSE LET a == Head(discovered)
         IN InsertAccounts([i \in DOMAIN accounts \cup {a.index} |->
                               IF i = a.index THEN a ELSE accounts[i]],
                           Tail(discovered))

\* AccountsSynchronizer::execute_internal, between taking and dropping the
\* mutex: every account is synced, then accounts are discovered if the
\* account with the highest index is not empty
ExecuteInternal(initialise_ok) ==
    LET synced == [i \in DOMAIN store |-> SyncedAccountData(store[i])]
        last_account_index == IF DOMAIN store = {} THEN 0 ELSE HighestIndex(DOMAIN store)
        is_empty == DOMAIN store = {} \/ IsEmptyAccount(synced[last_account_index])
        discovered == IF is_empty THEN NoDiscovery
                      ELSE DiscoverAccounts(StoreLen, initialise_ok, NoDiscovery)
        inserted == IF discovered.ok THEN discovered.synced_accounts ELSE <<>>
    IN [accounts |-> InsertAccounts(synced, inserted),
        discovery |-> [done |-> TRUE, ran |-> ~is_empty, last_is_empty |-> is_empty,
                       last_account_index |-> last_account_index,
                       probes |-> discovered.probes,
                       inserted |-> {inserted[k].index : k \in 1..Len(inserted)},
                       stored |-> DOMAIN store \cup {inserted[k].index : k \in 1..Len(inserted)}]]

NotDiscovered == [done |-> FALSE, ran |-> FALSE, last_is_empty |-> TRUE, last_account_index |-> 0,
                  probes |-> <<>>, inserted |-> {}, stored |-> {}]

\* what the node answers to client.retry(message_id)
RetryAnswers == {"reattach", "promote", "no_need", "error"}

\* MessageType filter of list_messages: None lists every message
HasMessageType(m, message_type) ==
    CASE message_type = "None" -> TRUE
      [] message_type = "Unconfirmed" -> m.confirmed # ConfirmedTrue
      [] message_type = "Confirmed" -> m.confirmed = ConfirmedTrue

RECURSIVE ListMessages(_, _, _)
\* Account::list_messages(0, 0, message_type): of the messages that carry
\* one payload (a message and its reattachments) the list holds the latest,
\* or none after the first confirmed one was met
ListMessages(account_messages, message_type, listed) ==
    IF account_messages = <<>> THEN listed
    ELSE LET m == Head(account_messages)
             original == {k \in 1..Len(listed) : listed[k].payload = m.payload}
             Others(k) == [j \in 1..(Len(listed) - 1) |-> IF j < k THEN listed[j] ELSE listed[j + 1]]
             kept == IF original = {} THEN listed
                     ELSE Others(CHOOSE k \in original : TRUE)
         IN IF original # {} /\ listed[CHOOSE k \in original : TRUE].confirmed = ConfirmedTrue
            THEN ListMessages(Tail(account_messages), message_type, listed)
            ELSE ListMessages(Tail(account_messages), message_type,
                              IF HasMessageType(m, message_type) THEN Append(kept, m) ELSE kept)

\* Account::list_messages(0, 0, Some(MessageType::Unconfirmed))
UnconfirmedMessages(account_messages) == ListMessages(account_messages, "Unconfirmed", <<>>)

\* repost_message without the check of the local confirmation state
RepostMessageUnchecked(account_messages, message_id, answer) ==
    LET IsIt(m) == m.id = message_id
        found == SelectSeq(account_messages, IsIt)
        new_id == Len(account_messages) + 1
        held == IF new_id > MaxMessages THEN "error" ELSE answer
        new_message == [id |-> new_id,
                        payload |-> IF held = "reattach" THEN found[1].payload ELSE NoPayload,
                        confirmed |-> ConfirmedNone]
    IN IF found = <<>>
       THEN [result |-> "not_found", called |-> FALSE, messages |-> account_messages]
       ELSE IF held \in {"no_need", "error"}
       THEN [result |-> held, called |-> TRUE, messages |-> account_messages]
       ELSE [result |-> "ok", called |-> TRUE, message |-> new_message,
             messages |-> AppendMessages(account_messages, <<new_message>>)]

\* repost_message: the message of the list that carries the payload of the
\* given one (its latest reattachment) decides whether the node is asked;
\* the node's new message is appended to the account. `called` tells
\* whether client.retry, promote or reattach was invoked.
RepostMessage(account_messages, message_id, answer) ==
    LET IsIt(m) == m.id = message_id
        found == SelectSeq(account_messages, IsIt)
        SamePayload(m) == m.payload = found[1].payload
        message_to_repost == SelectSeq(ListMessages(account_messages, "None", <<>>), SamePayload)[1]
        new_id == Len(account_messages) + 1
        held == IF new_id > MaxMessages THEN "error" ELSE answer
        new_message == [id |-> new_id,
                        payload |-> IF held = "reattach" THEN message_to_repost.payload
                                    ELSE NoPayload,
                        confirmed |-> ConfirmedNone]
    IN IF found = <<>>
       THEN [result |-> "not_found", called |-> FALSE, messages |-> account_messages]
       ELSE IF message_to_repost.confirmed = ConfirmedTrue
       THEN [result |-> "no_need", called |-> FALSE, messages |-> account_messages]
       ELSE IF held \in {"no_need", "error"}
       THEN [result |-> held, called |-> TRUE, messages |-> account_messages]
       ELSE [result |-> "ok", called |-> TRUE, message |-> new_message,
             messages |-> AppendMessages(account_messages, <<new_message>>)]

NoRetriedData(account_messages) ==
    [messages |-> account_messages, reattached |-> <<>>, promoted |-> <<>>,
     no_need_promote_or_reattach |-> <<>>, returned |-> <<>>]

\* the classification of a new message: a reattachment if it carries the
\* payload of the retried message
IsReattachment(new_message, payload) == new_message.payload = payload

RECURSIVE RetryMessages(_, _, _)
\* retry_unconfirmed_transactions and poll, one account: every unconfirmed
\* message listed before the loop is retried; `returned` keeps what the node
\* returned for each
RetryMessages(unconfirmed_messages, answers, data) ==
    IF unconfirmed_messages = <<>> THEN data
    ELSE LET message == Head(unconfirmed_messages)
             r == RepostMessage(data.messages, message.id, answers[message.id])
             next == [data EXCEPT !.messages = r.messages]
         IN RetryMessages(Tail(unconfirmed_messages), answers,
                IF r.result = "ok"
                THEN LET back == [id |-> message.id, payload |-> message.payload,
                                  new_message |-> r.message]
                     IN IF IsReattachment(r.message, message.payload)
                        THEN [next EXCEPT !.reattached = Append(@, <<message.id, r.message>>),
                                          !.returned = Append(@, back)]
                        ELSE [next EXCEPT !.promoted = Append(@, r.message),
                                          !.returned = Append(@, back)]
                ELSE IF r.result = "no_need"
                THEN [next EXCEPT !.no_need_promote_or_reattach = Append(@, message.id)]
                ELSE next)

\* RetriedData of every account of the store
RetryUnconfirmedTransactions(answers) ==
    [i \in DOMAIN store |->
        RetryMessages(UnconfirmedMessages(store[i].messages), answers,
                      NoRetriedData(store[i].messages))]

\* the reattachment events of one RetriedData
ReattachmentEvents(index, data) ==
    [k \in 1..Len(data.reattached) |->
        [type |-> "reattachment", account |-> index,
         message_id |-> data.reattached[k][1], new_id |-> data.reattached[k][2].id]]

RECURSIVE SetConfirmed(_, _, _)
\* poll: the messages that needed no retry take the inclusion state the node
\* reports, if it reports one
SetConfirmed(account_messages, ids, confirmed) ==
    IF ids = <<>> THEN account_messages
    ELSE SetConfirmed([k \in 1..Len(account_messages) |->
                          IF account_messages[k].id = Head(ids)
                          THEN [account_messages[k] EXCEPT !.confirmed = confirmed]
                          ELSE account_messages[k]],
                      Tail(ids), confirmed)

\* the confirmation events of one RetriedData
ConfirmationEvents(index, data, confirmed) ==
    [k \in 1..Len(data.no_need_promote_or_reattach) |->
        [type |-> "confirmation", account |-> index,
         message_id |-> data.no_need_promote_or_reattach[k], new_id |-> 0]]

\* poll, after the retries and the consolidation, one account: events,
\* append_messages of the reattached and the promoted messages, the
\* inclusion state of the others
PersistRetried(acct, data, inclusion_state) ==
    LET reattached_messages == [k \in 1..Len(data.reattached) |-> data.reattached[k][2]]
        appended == AppendMessages(AppendMessages(acct.messages, reattached_messages),
                                   data.promoted)
        confirmed == IF inclusion_state = "included" THEN ConfirmedTrue ELSE ConfirmedFalse
    IN [account |-> [acct EXCEPT !.messages =
                        IF inclusion_state = "none" THEN appended
                        ELSE SetConfirmed(appended, data.no_need_promote_or_reattach, confirmed)],
        events |-> ReattachmentEvents(acct.index, data)
                   \o (IF inclusion_state = "none" THEN <<>>
                       ELSE ConfirmationEvents(acct.index, data, confirmed))]

\* AccountManagerBuilder::default: the account options
DefaultAccountOptions == [automatic_output_consolidation |-> TRUE]

\* AccountManagerBuilder::with_automatic_output_consolidation_disabled
WithAutomaticOutputConsolidationDisabled(account_options) ==
    [account_options EXCEPT !.automatic_output_consolidation = TRUE]

\* the polling thread before its first tick, started by finish with the
\* automatic_output_consolidation of the builder's options; disabled tells
\* whether the application asked the builder to disable the consolidation
StartPolling(account_options, disabled) ==
    [running |-> TRUE, stopped |-> FALSE, pc |-> "idle", should_sync |-> FALSE,
     synced |-> FALSE, caught |-> FALSE, retried |-> <<>>, events |-> <<>>,
     result |-> "none",
     automatic_output_consolidation |-> account_options.automatic_output_consolidation,
     consolidation_disabled |-> disabled, consolidated |-> FALSE]

\* the polling thread of a manager built with the default options
IdlePoller == StartPolling(DefaultAccountOptions, FALSE)

\* consolidate_outputs_if_needed: consolidation transfers are issued when
\* automatic_consolidation is set and an address of a synced account holds
\* enough outputs
ConsolidateOutputsIfNeeded(automatic_consolidation, needed) ==
    automatic_consolidation /\ needed

\* number of clones of the AccountManager
NumClones == 1

\* the AccountManager values: the one the builder returned and its clones
Original == 0
Handles == 0..NumClones

\* AccountManagerBuilder::finish and start_polling: the manager holds the
\* join handle of the polling thread and the sender of the stop channel
PollingManager == [exists |-> TRUE, polling_handle |-> TRUE, stop_polling_sender |-> TRUE]

\* a clone that has not been made, or a manager that has been dropped
NoManager == [exists |-> FALSE, polling_handle |-> FALSE, stop_polling_sender |-> FALSE]

\* the application has not called yet
NoCall == [op |-> "none"]

\* an account manager with its first account and the poller finish started
ManagerBuilt(first_messages, funded, first_poller) ==
    /\ sync_accounts_lock = NoHolder
    /\ store = [i \in {0} |-> ManagedAccount(0, FALSE, FALSE, first_messages)]
    /\ node = [funded |-> funded]
    /\ poller = first_poller
    /\ caller = [c \in Calls |-> "idle"]
    /\ last_discovery = NotDiscovered
    /\ handles = [h \in Handles |-> IF h = Original THEN PollingManager ELSE NoManager]
    /\ manager_storage = {0}
    /\ last_call = NoCall
    /\ SyncIdle
    /\ addresses = <<>>
    /\ outputs = <<>>
    /\ node_outputs = <<>>
    /\ storage = [addresses |-> <<>>, messages |-> <<>>]
    /\ messages = <<>>
    /\ InitTransfers
    /\ dust = NoDust

\* an account manager built with the default options
ManagerStarts(first_messages, funded) == ManagerBuilt(first_messages, funded, IdlePoller)

\* the first account has sent nothing; any of the account indexes may hold
\* funds on the ledger
InitPoll == \E funded \in SUBSET AccountIndexes : ManagerStarts(<<>>, funded)

engine_idle_vars == <<account_vars, transfer_vars, dust, sync_vars>>

manager_idle_vars == <<engine_idle_vars, api_vars>>

\* funds arrive on an account index
Deposit(i) ==
    /\ i \notin node.funded
    /\ node' = [node EXCEPT !.funded = @ \cup {i}]
    /\ UNCHANGED <<sync_accounts_lock, store, poller, caller, last_discovery, manager_idle_vars>>

\* the funds of an account index are spent
Withdraw(i) ==
    /\ i \in node.funded
    /\ node' = [node EXCEPT !.funded = @ \ {i}]
    /\ UNCHANGED <<sync_accounts_lock, store, poller, caller, last_discovery, manager_idle_vars>>

\* a call of the application: what was called and what it returned; `turn`
\* changes with every call
Called(op, index, message_id, result, called) ==
    [op |-> op, index |-> index, message_id |-> message_id, result |-> result,
     called |-> called, turn |-> IF last_call.op = "none" THEN FALSE ELSE ~last_call.turn]

\* an account counts as used as soon as it holds funds or messages
AccountNotEmptyOrUsed(acct) == acct.has_balance \/ acct.messages # <<>>

\* remove_account: account.balance().total > 0
AccountNotEmpty(acct) == acct.has_balance

\* AccountManager::remove_account: an account that get_account finds and
\* whose balance is 0 is removed from the store and from the storage
RemoveAccount(i) ==
    /\ IF i \notin DOMAIN store
       THEN /\ last_call' = Called("remove_account", i, 0, "RecordNotFound", FALSE)
            /\ UNCHANGED <<store, manager_storage>>
       ELSE IF AccountNotEmpty(store[i])
       THEN /\ last_call' = Called("remove_account", i, 0, "AccountNotEmpty", FALSE)
            /\ UNCHANGED <<store, manager_storage>>
       ELSE /\ store' = [j \in DOMAIN store \ {i} |-> store[j]]
            /\ manager_storage' = manager_storage \ {i}
            /\ last_call' = Called("remove_account", i, 0, "Ok", FALSE)
    /\ UNCHANGED <<sync_accounts_lock, node, poller, caller, last_discovery, handles, engine_idle_vars>>

\* AccountManager::retry, promote or reattach of a message of an account:
\* repost_message
Repost(i, message_id, answer) ==
    /\ i \in DOMAIN store
    /\ LET r == RepostMessage(store[i].messages, message_id, answer)
       IN /\ store' = [store EXCEPT ![i].messages = r.messages]
          /\ last_call' = Called("repost", i, message_id, r.result, r.called)
    /\ UNCHANGED <<sync_accounts_lock, node, poller, caller, last_discovery, handles, manager_storage, engine_idle_vars>>

\* start_polling: interval.tick() fires; with accounts in the store, poll is
\* called with should_sync = !(synced && is_monitoring)
Tick ==
    /\ poller.running
    /\ poller.pc = "idle"
    /\ \E is_monitoring \in BOOLEAN :
          LET should_sync == ~(poller.synced /\ is_monitoring)
          IN poller' = IF DOMAIN store = {}
                       THEN [poller EXCEPT !.caught = FALSE, !.retried = <<>>, !.events = <<>>,
                                           !.result = "skipped", !.consolidated = FALSE]
                       ELSE [poller EXCEPT !.pc = IF should_sync THEN "lock" ELSE "retry",
                                           !.should_sync = should_sync,
                                           !.caught = FALSE, !.retried = <<>>, !.events = <<>>,
                                           !.result = "none", !.consolidated = FALSE]
    /\ UNCHANGED <<sync_accounts_lock, store, node, caller, last_discovery, manager_idle_vars>>

\* execute_internal: let _lock = self.mutex.lock().await
PollerLock ==
    /\ poller.pc = "lock"
    /\ sync_accounts_lock = NoHolder
    /\ sync_accounts_lock' = PollerHolds
    /\ poller' = [poller EXCEPT !.pc = "sync"]
    /\ UNCHANGED <<store, node, caller, last_discovery, manager_idle_vars>>

\* poll: AccountsSynchronizer::execute; the mutex is dropped when
\* execute_internal returns. A failed sync ends poll with Err.
PollerSync ==
    /\ poller.pc = "sync"
    /\ sync_accounts_lock' = NoHolder
    /\ \/ \E initialise_ok \in BOOLEAN :
             LET done == ExecuteInternal(initialise_ok)
             IN /\ store' = done.accounts
                /\ last_discovery' = done.discovery
                /\ manager_storage' = manager_storage \cup done.discovery.inserted
                /\ poller' = [poller EXCEPT !.pc = "retry"]
       \/ /\ poller' = [poller EXCEPT !.pc = "idle", !.result = "err", !.synced = TRUE]
          /\ UNCHANGED <<store, last_discovery, manager_storage>>
    /\ UNCHANGED <<node, caller, handles, last_call, engine_idle_vars>>

\* the ids of the messages the tick asks the node to retry
RetriedIds ==
    UNION {{m.id : m \in {store[i].messages[k] : k \in 1..Len(store[i].messages)}} : i \in DOMAIN store}

\* poll: retry_unconfirmed_transactions, or the loop of the branch without sync
PollerRetry ==
    /\ poller.pc = "retry"
    /\ \E answers \in [RetriedIds -> RetryAnswers] :
          LET retried == RetryUnconfirmedTransactions(answers)
          IN /\ store' = [i \in DOMAIN store |->
                             [store[i] EXCEPT !.messages = retried[i].messages]]
             /\ poller' = [poller EXCEPT !.pc = "consolidate", !.retried = retried]
    /\ UNCHANGED <<sync_accounts_lock, node, caller, last_discovery, manager_idle_vars>>

\* poll: consolidate_outputs_if_needed(..).await?; an error of
\* consolidate_outputs ends poll
PollerConsolidate ==
    /\ poller.pc = "consolidate"
    /\ \E needed \in BOOLEAN, ok \in BOOLEAN :
          LET automatic == poller.automatic_output_consolidation
              issued == ConsolidateOutputsIfNeeded(automatic, needed)
          IN /\ ok \/ automatic
             /\ poller' = IF ok THEN [poller EXCEPT !.pc = "persist", !.consolidated = issued]
                          ELSE [poller EXCEPT !.pc = "idle", !.result = "err", !.synced = TRUE,
                                              !.consolidated = issued]
    /\ UNCHANGED <<sync_accounts_lock, store, node, caller, last_discovery, manager_idle_vars>>

RECURSIVE EventsOf(_, _)
\* the events of the accounts, in the order of the accounts
EventsOf(indexes, persisted) ==
    IF indexes = <<>> THEN <<>>
    ELSE persisted[Head(indexes)].events \o EventsOf(Tail(indexes), persisted)

\* poll: for retried_data in retried { .. }, then Ok(())
PollerPersist ==
    /\ poller.pc = "persist"
    /\ \E inclusion_state \in {"none", "included", "conflicting"} :
          LET held == DOMAIN store \cap DOMAIN poller.retried
              persisted == [i \in held |->
                               PersistRetried(store[i], poller.retried[i], inclusion_state)]
          IN /\ store' = [i \in DOMAIN store |->
                             IF i \in held THEN persisted[i].account ELSE store[i]]
             /\ poller' = [poller EXCEPT !.pc = "idle", !.result = "ok", !.synced = TRUE,
                                         !.events = EventsOf(SetToSeq(held), persisted)]
    /\ UNCHANGED <<sync_accounts_lock, node, caller, last_discovery, manager_idle_vars>>

\* a poller whose thread ends with the panic
CatchUnwindBreaks(p) == [p EXCEPT !.pc = "idle", !.running = FALSE, !.result = "panic"]

\* start_polling: catch_unwind().await returns Err(error): the panic is
\* logged and the loop goes on
CatchUnwind(p) == [p EXCEPT !.pc = "idle", !.caught = TRUE, !.result = "panic"]

\* the mutex guard of a tick that ends early is dropped with its future
DropGuard(lock) == IF lock = PollerHolds THEN NoHolder ELSE lock

\* a panic anywhere inside poll
Panic ==
    /\ poller.pc \in {"sync", "retry", "consolidate", "persist"}
    /\ poller' = CatchUnwind(poller)
    /\ sync_accounts_lock' = DropGuard(sync_accounts_lock)
    /\ UNCHANGED <<store, node, caller, last_discovery, manager_idle_vars>>

\* stop_background_sync on a manager: if it holds the join handle of the
\* polling thread it sends the stop signal and joins the thread: stop.recv()
\* wins the select!, the tick in progress is dropped and the loop breaks.
\* Without the join handle nothing happens.
StopBackgroundSync(h) ==
    /\ handles[h].exists
    /\ IF handles[h].polling_handle
       THEN /\ poller' = [poller EXCEPT !.running = FALSE, !.stopped = TRUE, !.pc = "idle"]
            /\ sync_accounts_lock' = DropGuard(sync_accounts_lock)
            /\ handles' = [handles EXCEPT ![h].polling_handle = FALSE,
                                          ![h].stop_polling_sender = FALSE]
       ELSE UNCHANGED <<poller, sync_accounts_lock, handles>>
    /\ UNCHANGED <<store, node, caller, last_discovery, manager_storage, last_call, engine_idle_vars>>

\* the application calls stop_background_sync on manager h
Stop(h) ==
    /\ handles[h].exists
    /\ IF handles[h].polling_handle
       THEN /\ poller' = [poller EXCEPT !.running = FALSE, !.stopped = TRUE, !.pc = "idle"]
            /\ sync_accounts_lock' = DropGuard(sync_accounts_lock)
            /\ handles' = [handles EXCEPT ![h].polling_handle = FALSE,
                                          ![h].stop_polling_sender = FALSE]
       ELSE UNCHANGED <<poller, sync_accounts_lock, handles>>
    /\ last_call' = Called("stop_background_sync", h, 0, "Ok", FALSE)
    /\ UNCHANGED <<store, node, caller, last_discovery, manager_storage, engine_idle_vars>>

\* a clone that takes the join handle of the polling thread along
CloneWithHandle(manager) ==
    [exists |-> TRUE, polling_handle |-> manager.polling_handle,
     stop_polling_sender |-> manager.stop_polling_sender]

\* Clone for AccountManager: the sender of the stop channel is cloned,
\* polling_handle is None
CloneOf(manager) ==
    [exists |-> TRUE, polling_handle |-> FALSE,
     stop_polling_sender |-> manager.stop_polling_sender]

\* manager h is cloned into c
Clone(h, c) ==
    /\ handles[h].exists
    /\ c # Original
    /\ ~handles[c].exists
    /\ handles' = [handles EXCEPT ![c] = CloneOf(handles[h])]
    /\ last_call' = Called("clone", c, 0, "Ok", FALSE)
    /\ UNCHANGED <<sync_accounts_lock, store, node, poller, caller, last_discovery, manager_storage, engine_idle_vars>>

\* Drop for AccountManager: stop_background_sync, then the manager is gone
DropManager(h) ==
    /\ handles[h].exists
    /\ IF handles[h].polling_handle
       THEN /\ poller' = [poller EXCEPT !.running = FALSE, !.stopped = TRUE, !.pc = "idle"]
            /\ sync_accounts_lock' = DropGuard(sync_accounts_lock)
       ELSE UNCHANGED <<poller, sync_accounts_lock>>
    /\ handles' = [handles EXCEPT ![h] = NoManager]
    /\ last_call' = Called("drop", h, 0, "Ok", FALSE)
    /\ UNCHANGED <<store, node, caller, last_discovery, manager_storage, engine_idle_vars>>

\* AccountManager::sync_accounts().execute(), called by the application
CallSyncAccounts(c) ==
    /\ caller[c] = "idle"
    /\ caller' = [caller EXCEPT ![c] = "lock"]
    /\ UNCHANGED <<sync_accounts_lock, store, node, poller, last_discovery, manager_idle_vars>>

\* execute_internal of the call: let _lock = self.mutex.lock().await
CallerLock(c) ==
    /\ caller[c] = "lock"
    /\ sync_accounts_lock = NoHolder
    /\ sync_accounts_lock' = CallerHolds(c)
    /\ caller' = [caller EXCEPT ![c] = "sync"]
    /\ UNCHANGED <<store, node, poller, last_discovery, manager_idle_vars>>

\* execute_internal of the call, to its end
CallerSync(c) ==
    /\ caller[c] = "sync"
    /\ sync_accounts_lock' = NoHolder
    /\ caller' = [caller EXCEPT ![c] = "done"]
    /\ \E initialise_ok \in BOOLEAN :
          LET done == ExecuteInternal(initialise_ok)
          IN /\ store' = done.accounts
             /\ last_discovery' = done.discovery
             /\ manager_storage' = manager_storage \cup done.discovery.inserted
    /\ UNCHANGED <<node, poller, handles, last_call, engine_idle_vars>>

NextPoll ==
    \/ \E i \in AccountIndexes : Deposit(i)
    \/ \E i \in AccountIndexes : Withdraw(i)
    \/ \E i \in StoreIndexes : RemoveAccount(i)
    \/ Tick
    \/ PollerLock
    \/ PollerSync
    \/ PollerRetry
    \/ PollerConsolidate
    \/ PollerPersist
    \/ Panic
    \/ \E h \in Handles : StopBackgroundSync(h)
    \/ \E c \in Calls : CallSyncAccounts(c)
    \/ \E c \in Calls : CallerLock(c)
    \/ \E c \in Calls : CallerSync(c)

SpecPoll == InitPoll /\ [][NextPoll]_vars

\* the interval fires again and again, the mutex is granted when free, and
\* a sync that holds the mutex runs to its end
PollFairness ==
    /\ WF_vars(Tick)
    /\ WF_vars(PollerLock)
    /\ WF_vars(\E c \in Calls : CallerSync(c))

\* the poller's loop and the explicit syncs, on a ledger that does not change
NextLoop ==
    \/ Tick
    \/ PollerLock
    \/ PollerSync
    \/ PollerRetry
    \/ PollerConsolidate
    \/ PollerPersist
    \/ Panic
    \/ \E h \in Handles : StopBackgroundSync(h)
    \/ \E c \in Calls : CallSyncAccounts(c)
    \/ \E c \in Calls : CallerLock(c)
    \/ \E c \in Calls : CallerSync(c)

SpecPollFair == InitPoll /\ [][NextLoop]_vars /\ PollFairness

\* ------------------------------------------------------------------------
\* The poller's retries of one account that holds an unconfirmed transaction
\* ------------------------------------------------------------------------

InitRetry ==
    ManagerStarts(<<[id |-> 1, payload |-> TransactionPayload, confirmed |-> ConfirmedNone]>>, {})

NextRetry ==
    \/ Tick
    \/ PollerLock
    \/ PollerSync
    \/ PollerRetry
    \/ PollerConsolidate
    \/ PollerPersist
    \/ Panic
    \/ \E h \in Handles : StopBackgroundSync(h)

SpecRetry == InitRetry /\ [][NextRetry]_vars

\* ------------------------------------------------------------------------
\* Properties of the account manager (under SpecPoll, SpecPollFair, SpecRetry)
\* ------------------------------------------------------------------------

\* a tick is between its first and its last step
TickInProgress == poller.pc \in {"sync", "retry", "consolidate", "persist"}

\* C17: no step of a poller tick (sync, account discovery, retry,
\* consolidation) runs while an explicit sync_accounts().execute() call is
\* running: sync_accounts_lock serializes them.
TicksAndSyncsSerialized ==
    \A c \in Calls : ~(TickInProgress /\ caller[c] = "sync")

\* the tick after the last one runs its steps (or finds no account to poll)
TickRuns == poller.pc \in {"sync", "retry"} \/ poller.result = "skipped"

\* C18: a panic inside a poll tick is caught and does not end the poller:
\* the loop ends only by the stop signal, and after a caught panic the
\* following tick is executed unless the stop signal comes first.
PanicKeepsPolling ==
    /\ [](poller.running \/ poller.stopped)
    /\ (poller.caught ~> (TickRuns \/ poller.stopped))

\* a panic has been caught and the poller is still running
PanicKeepsPollingWitness ==
    poller.caught /\ poller.running /\ poller.result = "panic"

\* the indexes of the probes that found an account with history
UsedProbes(d) == {d.probes[k].index : k \in {j \in 1..Len(d.probes) : d.probes[j].outcome = "used"}}

\* C19: after a multi-account sync, discovery runs only if the account with
\* the highest index is not empty; it probes highest + 1, highest + 2, ...,
\* stops at the first empty one, and exactly the non-empty probes are
\* inserted into the store, the empty probe is not.
DiscoveryFromHighestIndex ==
    last_discovery.done =>
        LET d == last_discovery
            n == Len(d.probes)
        IN /\ d.ran = ~d.last_is_empty
           /\ ~d.ran => d.probes = <<>> /\ d.inserted = {}
           /\ d.ran =>
                 /\ n >= 1
                 /\ \A k \in 1..n : d.probes[k].index = d.last_account_index + k
                 /\ \A k \in 1..(n - 1) : d.probes[k].outcome = "used"
                 /\ d.probes[n].outcome = "empty"
                 /\ d.inserted = UsedProbes(d)
                 /\ d.probes[n].index \notin d.stored

\* the last tick has returned from poll, with Ok or Err
TickReturned == poller.pc = "idle" /\ poller.result \in {"ok", "err"}

\* the reattachment events of the tick for the retried message id of
\* account i and its new message
ReattachmentEventsFor(i, id, new_id) ==
    {k \in 1..Len(poller.events) :
        /\ poller.events[k].type = "reattachment"
        /\ poller.events[k].account = i
        /\ poller.events[k].message_id = id
        /\ poller.events[k].new_id = new_id}

\* C20: for each unconfirmed message the poller retried and for which the
\* node returned a new message: with the same payload exactly one
\* reattachment event is emitted and no promotion is recorded; with another
\* payload a promotion is recorded and no reattachment event is emitted; in
\* both cases the new message is in the account's message list afterwards.
RetriesAreClassified ==
    TickReturned =>
        \A i \in DOMAIN poller.retried :
            \A k \in 1..Len(poller.retried[i].returned) :
                LET data == poller.retried[i]
                    r == data.returned[k]
                    promoted == \E j \in 1..Len(data.promoted) :
                                    data.promoted[j].id = r.new_message.id
                    events == ReattachmentEventsFor(i, r.id, r.new_message.id)
                IN /\ r.new_message.payload = r.payload =>
                          Cardinality(events) = 1 /\ ~promoted
                   /\ r.new_message.payload # r.payload =>
                          promoted /\ events = {}
                   /\ \E j \in 1..Len(store[i].messages) :
                          store[i].messages[j].id = r.new_message.id

\* ------------------------------------------------------------------------
\* repost_message on any message list of one account
\* ------------------------------------------------------------------------

\* a message as the account keeps it
AccountMessage(id, payload, confirmed) == [id |-> id, payload |-> payload, confirmed |-> confirmed]

\* the message lists of an account: up to MaxMessages messages with ids
\* 1, 2, ..; a message is a transaction or carries no payload and is
\* confirmed, conflicting or undecided
MessageLists ==
    UNION {[1..n -> {TransactionPayload, NoPayload} \X {ConfirmedNone, ConfirmedTrue, ConfirmedFalse}] : n \in 0..MaxMessages}

InitRepost ==
    \E list \in MessageLists :
        ManagerStarts([k \in 1..Len(list) |-> AccountMessage(k, list[k][1], list[k][2])], {})

NextRepost ==
    \E id \in 1..(MaxMessages + 1), answer \in RetryAnswers : Repost(0, id, answer)

SpecRepost == InitRepost /\ [][NextRepost]_vars

\* the call that has just returned is repost_message for message id
Reposted(id) ==
    /\ last_call' # last_call
    /\ last_call'.op = "repost"
    /\ last_call'.message_id = id

\* the account holds message id as confirmed
LocallyConfirmed(id) ==
    \E k \in 1..Len(store[0].messages) :
        store[0].messages[k].id = id /\ store[0].messages[k].confirmed = ConfirmedTrue

\* the account holds message id
KnownMessage(id) == \E k \in 1..Len(store[0].messages) : store[0].messages[k].id = id

InitRemove ==
    \E funded \in SUBSET AccountIndexes :
        ManagerStarts(<<AccountMessage(1, NoPayload, ConfirmedTrue)>>, funded)

NextRemove ==
    \/ \E i \in AccountIndexes : Deposit(i)
    \/ \E i \in AccountIndexes : Withdraw(i)
    \/ \E i \in StoreIndexes : RemoveAccount(i)
    \/ \E c \in Calls : CallSyncAccounts(c)
    \/ \E c \in Calls : CallerLock(c)
    \/ \E c \in Calls : CallerSync(c)

SpecRemove == InitRemove /\ [][NextRemove]_vars

\* the call that has just returned is remove_account for account i
RemoveCalled(i) ==
    /\ last_call' # last_call
    /\ last_call'.op = "remove_account"
    /\ last_call'.index = i

\* the manager holds account i and its total balance is 0
Removable(i) == i \in DOMAIN store /\ ~store[i].has_balance

NextSkip ==
    \/ \E id \in OutputIds : Receive(id)
    \/ \E id \in OutputIds : Spend(id)
    \/ \E m \in MessageIds : Include(m)
    \/ \E s \in Syncs : SkipPersistence(s)
    \/ \E s \in Syncs : GetNewHistory(s, DefaultSteps, FALSE)
    \/ \E s \in Syncs : Execute(s)

SpecSkip == InitSync /\ [][NextSkip]_vars

\* call s of execute returns in this step
Executed(s) == synchronizer[s].pc = "fetched" /\ synchronizer'[s].pc = "done"

\* C23: with skip_persistence set, execute leaves the account's address
\* list, message list and last-synced timestamp unchanged and does not save
\* the account; without it the found addresses and the parsed messages are
\* appended, the timestamp is set and the account is saved in one holding
\* of the account's write lock (one step).
SkipPersistenceLeavesAccount ==
    [][\A s \in Syncs :
          Executed(s) =>
              IF synchronizer[s].skip_persistence
              THEN account' = account /\ saved_state' = saved_state
              ELSE /\ account'.addresses =
                          AppendAddresses(account.addresses, synchronizer[s].data.addresses)
                   /\ account'.messages =
                          AppendMessages(account.messages, synchronizer[s].data.messages)
                   /\ saved_state'.last_synced_at = s
                   /\ saved_state'.saved = <<SavedAccount(account', s)>>]_vars

\* an execute with skip_persistence has found a new message, and the
\* account, never synced nor saved, does not hold it
SkipPersistenceWitness ==
    /\ last_sync.skip_persistence
    /\ last_sync.events.new_transaction_events # <<>>
    /\ account.messages = <<>>
    /\ Len(account.addresses) = 1
    /\ saved_state = NeverSynced

\* ------------------------------------------------------------------------
\* The poller and the managers that are cloned, stopped and dropped
\* ------------------------------------------------------------------------

NextHandles ==
    \/ Tick
    \/ PollerLock
    \/ PollerSync
    \/ PollerRetry
    \/ PollerConsolidate
    \/ PollerPersist
    \/ Panic
    \/ \E h \in Handles, c \in Handles : Clone(h, c)
    \/ \E h \in Handles : Stop(h)
    \/ \E h \in Handles : DropManager(h)

SpecHandles == InitPoll /\ [][NextHandles]_vars

\* the call that has just returned is op on manager h
ManagerCalled(op, h) ==
    /\ last_call' # last_call
    /\ last_call'.op = op
    /\ last_call'.index = h

\* C24: dropping a clone of the manager never stops the polling; dropping
\* the original or calling stop_background_sync on it stops the polling
\* thread; once it is stopped no further tick runs; stop_background_sync on
\* a manager that holds no polling handle (a second stop) changes nothing.
CloneDropKeepsPolling ==
    [][/\ \A h \in Handles \ {Original} :
             ManagerCalled("drop", h) =>
                 poller' = poller /\ sync_accounts_lock' = sync_accounts_lock
       /\ (/\ ManagerCalled("drop", Original) \/ ManagerCalled("stop_background_sync", Original)
           /\ handles[Original].polling_handle) =>
              /\ poller'.stopped
              /\ ~poller'.running
              /\ poller'.pc = "idle"
              /\ sync_accounts_lock' # PollerHolds
       /\ poller.stopped => poller' = poller
       /\ \A h \in Handles :
             (ManagerCalled("stop_background_sync", h) /\ ~handles[h].polling_handle) =>
                 /\ poller' = poller
                 /\ handles' = handles
                 /\ sync_accounts_lock' = sync_accounts_lock
                 /\ store' = store]_vars

\* a clone has been dropped during a tick of the poller, which goes on
CloneDropWitness ==
    /\ last_call.op = "drop"
    /\ last_call.index # Original
    /\ handles[Original].polling_handle
    /\ poller.running
    /\ poller.pc = "retry"

\* ------------------------------------------------------------------------
\* The poller of a manager built with or without
\* with_automatic_output_consolidation_disabled
\* ------------------------------------------------------------------------

InitBuilder ==
    \E funded \in SUBSET AccountIndexes, disabled \in BOOLEAN :
        ManagerBuilt(<<>>, funded,
                     StartPolling(IF disabled
                                  THEN WithAutomaticOutputConsolidationDisabled(DefaultAccountOptions)
                                  ELSE DefaultAccountOptions,
                                  disabled))

SpecBuilder == InitBuilder /\ [][NextLoop]_vars

\* C25: if the manager was built with
\* with_automatic_output_consolidation_disabled, no tick of the poller
\* issues an output-consolidation transfer, however many outputs the
\* addresses hold.
DisabledNeverConsolidates ==
    poller.consolidation_disabled => ~poller.consolidated

\* ------------------------------------------------------------------------
\* sync_address on an address of the account while the node fails
\* ------------------------------------------------------------------------

\* sync_address for an address of the account, with the account's messages
\* and the output map of the address, as sync_address_list calls it
SyncAddressCall(address, fault) ==
    /\ HasAddress(account, address)
    /\ synced_address' =
           [called |-> TRUE, address |-> address, fault |-> fault,
            returned |-> SyncAddressWithFault(account.messages,
                                              OutputsOfAddress(account, address),
                                              address, fault)]
    /\ UNCHANGED <<ledger, account, synchronizer, last_sync, saved_state, engine_vars>>

NextAddress ==
    \/ \E id \in OutputIds : Receive(id)
    \/ \E id \in OutputIds : Spend(id)
    \/ \E m \in MessageIds : Include(m)
    \/ GetNewHistory(1, DefaultSteps, FALSE)
    \/ Execute(1)
    \/ \E address \in {P0, I0}, fault \in NodeFaults : SyncAddressCall(address, fault)

SpecAddress == InitSync /\ [][NextAddress]_vars

\* the node failed to answer a request that sync_address made
NodeFailed(r) ==
    \/ r.fault \in {"outputs", "balance"}
    \/ r.fault = "output" /\ "output" \in r.returned.requests
    \/ r.fault \in {"message", "message_404"} /\ "message" \in r.returned.requests
    \/ r.fault = "metadata" /\ "metadata" \in r.returned.requests

\* C26: during the sync of an address a 404 for a message body makes the
\* message be omitted and the sync go on; every other error of the node
\* (address outputs, balance, output details, message body, message
\* metadata) aborts the sync with an error.
NodeErrorsAbortSync ==
    (synced_address.called /\ NodeFailed(synced_address)) =>
        IF synced_address.fault = "message_404"
        THEN /\ synced_address.returned.result = "Ok"
             /\ synced_address.returned.messages = <<>>
        ELSE synced_address.returned.result = "Err"

\* ------------------------------------------------------------------------
\* The account's lock during the syncs of the account
\* ------------------------------------------------------------------------

NextLock ==
    \/ \E id \in OutputIds : Receive(id)
    \/ \E id \in OutputIds : Spend(id)
    \/ \E m \in MessageIds : Include(m)
    \/ \E s \in Syncs : BeginHistory(s, DefaultSteps, FALSE)
    \/ \E s \in Syncs : EndHistory(s)
    \/ \E s \in Syncs : Execute(s)

SpecLock == InitSync /\ [][NextLock]_vars

\* the requests of sync s to the node are in progress
NodeIoInProgress(s) == synchronizer[s].pc = "reading"

\* C27: during a sync of the account no lock on the account is held while
\* the requests to the node are in progress: the read lock is released
\* before they start and the write lock is taken only to append and save.
NoLockDuringNodeIo ==
    \A s \in Syncs : NodeIoInProgress(s) => synchronizer[s].lock = "none"

\* ------------------------------------------------------------------------
\* The new-transaction events of a sync (under SpecSync)
\* ------------------------------------------------------------------------

\* the account holds a message with the id
HoldsMessage(acct, id) == \E i \in 1..Len(acct.messages) : acct.messages[i].id = id

\* number of new-transaction events for the message id
NewTransactionEvents(events, id) ==
    Cardinality({k \in 1..Len(events.new_transaction_events) :
                    events.new_transaction_events[k].id = id})

\* C28: a sync emits exactly one new-transaction event for each message
\* that the account holds after the sync and did not hold before it, also
\* when the message created several outputs found on the account's
\* addresses, and none for a message the account held already.
OneEventPerNewMessage ==
    [][\A s \in Syncs :
          Executed(s) =>
              \A id \in MessageIds :
                  NewTransactionEvents(last_sync'.events, id) =
                      IF ~HoldsMessage(account, id) /\ HoldsMessage(account', id) THEN 1 ELSE 0]_vars

\* ------------------------------------------------------------------------
\* Properties of input selection and of the transaction essence (under Spec)
\* ------------------------------------------------------------------------

\* the inputs of transfer t were chosen by select_inputs: the transfers of
\* the poller's consolidation name their input
SelectedInputs(t) == ~trace[t].by_poller

\* the essence outputs of transfer t to the address with the amount
EssenceOutputs(t, address, amount) ==
    {k \in 1..Len(local[t].essence_outputs) :
        local[t].essence_outputs[k] = [address |-> address, amount |-> amount]}

\* C29: for a transfer whose inputs select_inputs chose, the amounts of the
\* consumed outputs add up to the transfer amount plus the remainder value,
\* and the essence has one output of the transfer amount for the
\* destination, plus one remainder output if and only if the remainder
\* value is greater than 0.
ValueIsConserved ==
    \A t \in Transfers :
        (pc[t] = "prepared" /\ SelectedInputs(t)) =>
            LET obj == transfer_obj[t]
                remainder_value == local[t].remainder_value
            IN /\ SumAmounts(Utxos(input_addresses[t])) = obj.amount + remainder_value
               /\ remainder_value >= 0
               /\ EssenceOutputs(t, obj.address, obj.amount) # {}
               /\ Len(local[t].essence_outputs) = IF remainder_value > 0 THEN 2 ELSE 1
               /\ remainder_value > 0 =>
                      /\ local[t].deposit # <<>>
                      /\ \E k \in 1..Len(local[t].essence_outputs) :
                             /\ local[t].essence_outputs[k] =
                                    [address |-> local[t].deposit[1], amount |-> remainder_value]
                             /\ \E j \in EssenceOutputs(t, obj.address, obj.amount) : j # k

\* a transfer that consumes several outputs of one address has a remainder
ValueIsConservedWitness ==
    \E t \in Transfers :
        /\ pc[t] = "prepared"
        /\ SelectedInputs(t)
        /\ Len(Utxos(input_addresses[t])) > 1
        /\ local[t].remainder_value > 0
        /\ Len(local[t].essence_outputs) = 2

\* transfer t, started by a user, has its inputs selected in this step
InputsSelected(t) == pc[t] = "idle" /\ pc'[t] = "selected"

\* an input of transfer t after the step is the address a
SelectedAddress(t, a) ==
    \E i \in 1..Len(input_addresses'[t]) : input_addresses'[t][i].address = a

\* the balances of the inputs selected for transfer t exceed its amount
LeavesRemainder(t) ==
    SumBalance(input_addresses'[t]) > transfer_obj'[t].amount

NumEventOutputs == 3

EventOutputIds == 1..NumEventOutputs

\* client.get_output for the outputs of this address: output id pays
\* id Mi and was created by message id
EventOutput(id) ==
    [id |-> id, address |-> P0, amount |-> id * 1000000, message_id |-> id,
     is_spent |-> ledger.outputs[id] = "spent"]

\* a fresh account with its first public address, and a node that holds no
\* output yet and knows the metadata of every message
InitEvents ==
    /\ ledger = [outputs |-> [id \in EventOutputIds |-> "absent"],
                 metadata |-> [m \in EventOutputIds |-> "included"]]
    /\ \E spent \in BOOLEAN :
          account = [addresses |-> <<AddressBuilder(P0, 0, {})>>, messages |-> <<>>,
                     sync_spent_outputs |-> spent]
    /\ synchronizer = [s \in Syncs |-> IdleSynchronizer]
    /\ last_sync = NoSync
    /\ saved_state = NeverSynced
    /\ synced_address = NoAddressSync
    /\ addresses = <<>>
    /\ outputs = <<>>
    /\ node_outputs = <<>>
    /\ storage = [addresses |-> <<>>, messages |-> <<>>]
    /\ messages = <<>>
    /\ InitTransfers
    /\ dust = NoDust
    /\ PollIdle

\* the ledger: a transaction pays an output to the address, unspent or
\* already consumed when the node is asked next
EventReceive(id, status) ==
    /\ ledger.outputs[id] = "absent"
    /\ ledger' = [ledger EXCEPT !.outputs[id] = status]
    /\ UNCHANGED <<account, synchronizer, last_sync, saved_state, synced_address, engine_vars>>

\* the ledger: a transaction consumes an output of the address
EventSpend(id) ==
    /\ ledger.outputs[id] = "unspent"
    /\ ledger' = [ledger EXCEPT !.outputs[id] = "spent"]
    /\ UNCHANGED <<account, synchronizer, last_sync, saved_state, synced_address, engine_vars>>

\* AccountSynchronizer::execute on the account: sync_address of its address
\* (the outputs the node lists, the node's balance), append_addresses and
\* append_messages, then get_events against the snapshot taken before
SyncEvents ==
    LET before == account.addresses[1]
        listed == {id \in EventOutputIds :
                      \/ ledger.outputs[id] = "unspent"
                      \/ account.sync_spent_outputs /\ ledger.outputs[id] = "spent"}
        ids == Ascending({id \in listed : ~KnownSpent(before.outputs, id)})
        found == [i \in 1..Len(ids) |-> EventOutput(ids[i])]
        balance == SumUnspent({EventOutput(id) : id \in EventOutputIds}
                                 \ {o \in {EventOutput(id) : id \in EventOutputIds} :
                                       ledger.outputs[o.id] = "absent"})
        synced == AddressBuilder(P0, balance, InsertOutputs(before.outputs, Range(found)))
        data == [addresses |-> <<synced>>,
                 messages |-> Flatten([i \in 1..Len(ids) |->
                                          FoundMessage(account.messages, found[i])])]
        appended == Persist(account, data, data.messages, FALSE)
        New(m) == \A i \in 1..Len(account.messages) : account.messages[i].id # m.id
        Changed(m) == \E i \in 1..Len(account.messages) :
                         /\ account.messages[i].id = m.id
                         /\ account.messages[i].confirmed # m.confirmed
    IN /\ account' = appended
       /\ last_sync' = [NoSync EXCEPT !.events =
              GetEvents(account.addresses, appended.addresses,
                        SelectSeq(data.messages, New), SelectSeq(data.messages, Changed),
                        account.sync_spent_outputs)]
       /\ UNCHANGED <<ledger, synchronizer, saved_state, synced_address, engine_vars>>

NextEvents ==
    \/ \E id \in EventOutputIds, status \in {"unspent", "spent"} : EventReceive(id, status)
    \/ \E id \in EventOutputIds : EventSpend(id)
    \/ SyncEvents

SpecEvents == InitEvents /\ [][NextEvents]_vars

RECURSIVE SignedSum(_)
\* the sum of the balance changes of a list of events, received counted
\* positive and spent negative, as the multiple of 2^64 and the rest
SignedSum(events) ==
    IF events = <<>> THEN [wrapped |-> 0, rest |-> 0]
    ELSE LET change == Head(events).balance_change
             sign == IF change.kind = "spent" THEN 0 - 1 ELSE 1
             tail == SignedSum(Tail(events))
         IN [wrapped |-> sign * change.amount.wrapped + tail.wrapped,
             rest |-> sign * change.amount.rest + tail.rest]

\* the balance the account held for the address of a
BalanceBefore(a) ==
    LET same == {i \in 1..Len(account.addresses) : account.addresses[i].address = a.address}
    IN IF same = {} THEN 0 ELSE account.addresses[CHOOSE i \in same : TRUE].balance

\* the balance-change events emitted for the address of a by the sync
EventsFor(a) ==
    LET Same(e) == e.address = a.address
    IN SelectSeq(last_sync'.events.balance_change_events, Same)

\* C31: the balance-change events a sync emits for an address add up,
\* received positive and spent negative, to the balance after the sync
\* minus the balance before it, every amount is the magnitude of its change
\* (not a wrapped negative), and an address of unchanged balance gets none
EventsAddUpToBalanceChange ==
    [][ledger' = ledger =>
          \A i \in 1..Len(account'.addresses) :
              LET a == account'.addresses[i]
              IN /\ SignedSum(EventsFor(a)) =
                        [wrapped |-> 0, rest |-> a.balance - BalanceBefore(a)]
                 /\ \A k \in 1..Len(EventsFor(a)) :
                        /\ EventsFor(a)[k].balance_change.amount.wrapped = 0
                        /\ EventsFor(a)[k].balance_change.amount.rest >= 0
                 /\ a.balance = BalanceBefore(a) => EventsFor(a) = <<>>]_vars

\* ------------------------------------------------------------------------
\* The poller's decision to skip the sync (under SpecRetry)
\* ------------------------------------------------------------------------
\* C32: a tick of the poller calls poll without the full sync only when the
\* poll of the tick before it returned Ok; after a tick whose poll returned
\* an error or panicked the next tick runs the full sync
SkipsSyncOnlyAfterOk ==
    [][poller.pc = "idle" /\ poller'.pc = "retry" => poller.result = "ok"]_vars

\* ------------------------------------------------------------------------
\* Gap-limit discovery (sync_addresses) of a fresh account on a node that
\* holds outputs on some of the account's public addresses
\* ------------------------------------------------------------------------
\* the highest key index of a public address that may hold an output
MaxUsedIndex == 11

UsedIndexes == 0..MaxUsedIndex

\* the number of public addresses that hold an output
MaxUsed == 2

\* the output the node holds for the public address of a used index
GapOutput(index) ==
    [id |-> index + 1, address |-> AccountAddress(FALSE, index), amount |-> 1000000,
     message_id |-> index + 1, is_spent |-> FALSE]

\* sync_address for an address of the batch: the output of a used public
\* address and its message
GapSyncAddress(acct, address) ==
    LET found == IF ~address.internal /\ address.key_index \in ledger.used
                 THEN {GapOutput(address.key_index)} ELSE {}
    IN [address |-> AddressBuilder(address, SumUnspent(found),
                                   InsertOutputs(OutputsOfAddress(acct, address), found)),
        messages |-> IF found = {} THEN <<>>
                     ELSE FoundMessage(acct.messages, GapOutput(address.key_index))]

\* a discovery that ends with its first batch whatever the batch found
IsEmptyAlways(curr) == TRUE

\* sync_addresses: is_empty, the batch found no message and none of its
\* addresses has outputs
IsEmpty(curr) ==
    /\ curr.messages = <<>>
    /\ \A k \in 1..Len(curr.addresses) : curr.addresses[k].outputs = {}

RECURSIVE SyncAddressesBatches(_, _, _, _, _)
\* sync_addresses with the number of batches it has run and the indexes it
\* has generated addresses for: batches of gap_limit indexes until a batch
\* is empty or the signer is locked
SyncAddressesBatches(acct, address_index, gap_limit, locked, done) ==
    LET generated == GeneratedIotaAddresses(acct, address_index, gap_limit, locked)
        synced == [k \in 1..Len(generated) |-> GapSyncAddress(acct, generated[k])]
        NotEmptyChange(a) == ~(a.address.internal /\ a.outputs = {})
        curr == [addresses |-> SelectSeq([k \in 1..Len(generated) |-> synced[k].address],
                                         NotEmptyChange),
                 messages |-> Flatten([k \in 1..Len(generated) |-> synced[k].messages])]
        all == [addresses |-> done.addresses \o curr.addresses,
                messages |-> done.messages \o curr.messages,
                batches |-> done.batches + 1,
                generated |-> done.generated
                                 \cup {generated[k].key_index : k \in 1..Len(generated)}]
    IN IF IsEmpty(curr) \/ AddressGenerationLocked(acct, address_index, gap_limit, locked)
       THEN all
       ELSE SyncAddressesBatches(acct, address_index + gap_limit, gap_limit, locked, all)

\* a fresh account with its first public address; up to MaxUsed of the
\* public addresses up to MaxUsedIndex hold an output on the node
InitGap ==
    /\ \E used \in {u \in SUBSET UsedIndexes : Cardinality(u) <= MaxUsed} :
          ledger = [used |-> used,
                    metadata |-> [m \in 1..(MaxUsedIndex + 1) |-> "included"]]
    /\ account = [addresses |-> <<AddressBuilder(P0, 0, {})>>, messages |-> <<>>,
                  sync_spent_outputs |-> FALSE]
    /\ synchronizer = [s \in Syncs |-> IdleSynchronizer]
    /\ last_sync = [batches |-> 0, generated |-> {}, locked |-> FALSE]
    /\ saved_state = NeverSynced
    /\ synced_address = NoAddressSync
    /\ addresses = <<>>
    /\ outputs = <<>>
    /\ node_outputs = <<>>
    /\ storage = [addresses |-> <<>>, messages |-> <<>>]
    /\ messages = <<>>
    /\ InitTransfers
    /\ dust = NoDust
    /\ PollIdle

\* the first default sync of the account, AccountSynchronizer::new and
\* execute: address_index is the index of the latest address (0) and
\* gap_limit 10; perform_sync keeps the addresses to save, execute appends
GapSync(locked) ==
    /\ synchronizer[1].pc = "idle"
    /\ LET address_index == LatestAddressOf(account).key_index
           gap_limit == IF address_index = 0 THEN GapLimitFresh ELSE GapLimitLatest
           found == SyncAddressesBatches(account, address_index, gap_limit, locked,
                                         [addresses |-> <<>>, messages |-> <<>>,
                                          batches |-> 0, generated |-> {}])
           swept == SyncMessages(account, found.addresses)
           data == [messages |-> NotHeld(account, found.messages) \o swept.messages,
                    addresses |-> AddressesToSave(found.addresses \o swept.addresses,
                                                  <<>>, <<>>, FALSE)]
       IN /\ account' = Persist(account, data, data.messages, FALSE)
          /\ last_sync' = [batches |-> found.batches, generated |-> found.generated,
                           locked |-> locked]
          /\ synchronizer' = [synchronizer EXCEPT ![1].pc = "done"]
    /\ UNCHANGED <<ledger, saved_state, synced_address, engine_vars>>

NextGap == \E locked \in BOOLEAN : GapSync(locked)

SpecGap == InitGap /\ [][NextGap]_vars

\* the sync of SpecGap has run, the signer unlocked
GapSynced == synchronizer[1].pc = "done" /\ ~last_sync.locked

\* the sync of SpecGap has run with the signer locked
GapSyncedLocked == synchronizer[1].pc = "done" /\ last_sync.locked

\* the batch that starts at index first holds a used address
BatchUsed(first) == \E k \in ledger.used : first <= k /\ k < first + GapLimitFresh

\* C33 as stated: discovery stops after the first batch without messages and
\* outputs, and with outputs only at public[7] the sync from index 0 with
\* gap limit 10 runs exactly one batch (indexes 0 to 9), generates no
\* address beyond it and keeps public[8] as the deposit address
OneBatchForOutputsAtSeven ==
    GapSynced =>
        /\ ~BatchUsed((last_sync.batches - 1) * GapLimitFresh)
        /\ ledger.used = {7} =>
              /\ last_sync.batches = 1
              /\ last_sync.generated = 0..9
              /\ LatestAddressOf(account).key_index = 8

\* C33: discovery runs a batch after every batch that found outputs and
\* stops after the first batch that found none, or after its first batch
\* when address generation is locked; with outputs only at public[7] it
\* runs two batches (indexes 0 to 19) and keeps public[8] as the deposit
\* address
StopsAfterFirstEmptyBatch ==
    /\ GapSyncedLocked => last_sync.batches = 1
    /\ GapSynced =>
          /\ ~BatchUsed((last_sync.batches - 1) * GapLimitFresh)
          /\ \A b \in 1..(last_sync.batches - 1) : BatchUsed((b - 1) * GapLimitFresh)
          /\ last_sync.generated = 0..(last_sync.batches * GapLimitFresh - 1)
          /\ ledger.used = {7} =>
                /\ last_sync.batches = 2
                /\ LatestAddressOf(account).key_index = 8

StopsAfterFirstEmptyBatchWitness ==
    /\ GapSynced
    /\ ledger.used = {7}
    /\ last_sync.batches = 2
    /\ LatestAddressOf(account).key_index = 8

\* ------------------------------------------------------------------------
\* The order of the steps of a transfer (under Spec)
\* ------------------------------------------------------------------------
\* the calls of perform_transfer in the order of its code
StepOrder == <<"dust", "sign", "pow", "post", "save">>

\* s is a prefix of q
IsPrefix(s, q) == Len(s) <= Len(q) /\ \A i \in 1..Len(s) : s[i] = q[i]

\* transfer t has selected its inputs and has not unlocked them yet
InProgress(t) ==
    pc[t] \in {"selected", "prepared", "checked", "signed", "pow_done", "posted", "returned"}

\* the calls transfer t has made when it is at pc[t]
CallsAt(t) ==
    CASE pc[t] \in {"selected", "prepared"} -> 0
      [] pc[t] = "checked" -> 1
      [] pc[t] = "signed" -> 2
      [] pc[t] = "pow_done" -> 3
      [] pc[t] = "posted" -> 4
      [] OTHER -> Len(trace[t].calls)

\* the calls every transfer has made so far are a prefix of the order of
\* the code and were made with its input addresses locked; a transfer whose
\* dust check failed has made no further call, and a transfer that returns
\* Ok has made them all
StepsSoFarInOrder ==
    \A t \in Transfers :
        /\ IsPrefix(trace[t].calls, StepOrder)
        /\ Len(trace[t].calls) = CallsAt(t)
        /\ trace[t].calls # <<>> => InProgress(t)
        /\ InProgress(t) =>
              \A i \in 1..Len(input_addresses[t]) :
                  \E k \in 1..Len(locked_addresses) :
                      locked_addresses[k] = input_addresses[t][i].address
        /\ trace[t].dust_error # NoAddress =>
              trace[t].calls = <<"dust">> /\ pc[t] = "returned"
        /\ pc[t] = "returned" /\ local[t].result = "Ok" => trace[t].calls = StepOrder

\* C34: the steps of every transfer occur in the order selection and lock,
\* dust check, signing, proof of work, post_message, account save, unlock:
\* after every step the calls made so far are a prefix of that order, made
\* while the input addresses are locked; no call follows a failed dust
\* check or any other failure, and the addresses are unlocked only by a
\* transfer that has returned from perform_transfer (saved or failed)
TransferStepsInOrder ==
    [][/\ StepsSoFarInOrder'
       /\ \A t \in Transfers :
             /\ pc[t] = "returned" =>
                   trace'[t].calls = trace[t].calls \/ pc'[t] \in {"done", "cancelled"}
             /\ pc'[t] = "done" /\ pc[t] # "done" /\ input_addresses[t] # <<>> =>
                   pc[t] = "returned"]_vars

TransferStepsWitness ==
    \E t \in Transfers :
        /\ pc[t] = "done"
        /\ res[t] = "Ok"
        /\ ~trace[t].by_poller
        /\ \E s \in Transfers :
              pc[s] = "returned" /\ trace[s].dust_error # NoAddress

\* ------------------------------------------------------------------------
\* Output consolidation (under Spec)
\* ------------------------------------------------------------------------
\* the step is consolidate_outputs and t is one of the tasks it creates
Queued(t) == pc[t] = "idle" /\ pc'[t] = "queued"

\* C35: consolidate_outputs creates self-transfers for an address if and
\* only if the address holds strictly more available outputs than the
\* consolidation threshold; an address with exactly the threshold gets none
ConsolidatesOnlyAboveThreshold ==
    [][(\E t \in Transfers : Queued(t)) =>
          \A i \in 1..Len(addresses) :
              (\E t \in Transfers :
                  Queued(t) /\ transfer_obj'[t].address = addresses[i].address)
              <=> Len(AvailableOutputs(addresses[i].address)) > OutputConsolidationThreshold]_vars

\* ------------------------------------------------------------------------
\* Consolidation of an address that holds many outputs
\* ------------------------------------------------------------------------
\* the highest number of outputs the address holds
MaxOutputs == 129

\* an account whose public address 0 holds count outputs of 1 Mi each
InitChunks ==
    /\ \E count \in 1..MaxOutputs :
          /\ addresses = <<Address(FALSE, 0, count * 1000000)>>
          /\ outputs = [o \in 1..count |->
                           Output(P0, 1000000, "SignatureLockedSingle", FALSE)]
          /\ storage = [addresses |-> <<Address(FALSE, 0, count * 1000000)>>,
                        messages |-> <<>>]
    /\ node_outputs = <<>>
    /\ messages = <<>>
    /\ InitTransfers
    /\ dust = NoDust
    /\ SyncIdle
    /\ PollIdle

NextChunks == ConsolidateOutputs

SpecChunks == InitChunks /\ [][NextChunks]_vars

\* C36: every consolidation transfer is a self-transfer of exactly the sum
\* of the amounts of the outputs it takes as inputs, also when the outputs
\* of the address are split over several transfers
ConsolidationAmountIsInputSum ==
    \A t \in Transfers :
        pc[t] = "queued" =>
            /\ Len(transfer_obj[t].input) = 1
            /\ transfer_obj[t].input[1].address = transfer_obj[t].address
            /\ transfer_obj[t].amount = SumAmounts(transfer_obj[t].input[1].outputs)

\* ------------------------------------------------------------------------
\* The remainder deposit address of the ChangeAddress strategy (under Spec)
\* ------------------------------------------------------------------------
\* transfer t resolves its remainder in this step: perform_transfer takes
\* the write lock with a remainder to deposit by the ChangeAddress strategy
ResolvesChange(t) ==
    /\ pc[t] = "selected" /\ pc'[t] = "prepared"
    /\ transfer_obj[t].remainder_value_strategy.kind = "ChangeAddress"
    /\ local'[t].remainder_value > 0

\* C37: with ChangeAddress and a remainder above 0, the deposit address is,
\* for an internal source, the latest address of the account (a newly
\* generated one when the latest is the destination), and for a public
\* source the internal address of the account with the key index of the
\* source or, when there is none, a new internal address of that key index
\* that is added to the account; the essence pays the amount to the
\* destination and the remainder to the deposit address
ChangeAddressIsResolved ==
    [][\A t \in Transfers :
          ResolvesChange(t) =>
              LET source == remainder_address[t][1].address
                  deposit == local'[t].deposit[1]
                  fresh == \A i \in 1..Len(addresses) : addresses[i].address # deposit
                  added == /\ Len(addresses') = Len(addresses) + 1
                           /\ addresses'[Len(addresses')].address = deposit
                           /\ SubSeq(addresses', 1, Len(addresses)) = addresses
              IN /\ IF source.internal
                    THEN IF LatestAddress = transfer_obj[t].address
                         THEN fresh /\ added /\ ~deposit.internal
                         ELSE deposit = LatestAddress /\ addresses' = addresses
                    ELSE IF \E i \in 1..Len(addresses) :
                                /\ addresses[i].address.internal
                                /\ addresses[i].address.key_index = source.key_index
                         THEN /\ deposit.internal /\ deposit.key_index = source.key_index
                              /\ ~fresh /\ addresses' = addresses
                         ELSE /\ deposit.internal /\ deposit.key_index = source.key_index
                              /\ fresh /\ added
                 /\ local'[t].essence_outputs =
                        <<[address |-> transfer_obj[t].address,
                           amount |-> transfer_obj[t].amount],
                          [address |-> deposit, amount |-> local'[t].remainder_value]>>]_vars

\* a transfer from a public address to an external address has resolved its
\* remainder to a new internal address of the same key index
ChangeAddressWitness ==
    \E t \in Transfers :
        /\ pc[t] = "prepared"
        /\ transfer_obj[t].remainder_value_strategy.kind = "ChangeAddress"
        /\ local[t].remainder_value > 0
        /\ Len(input_addresses[t]) = 1
        /\ ~remainder_address[t][1].address.internal
        /\ local[t].deposit[1].internal
        /\ local[t].deposit[1].key_index = remainder_address[t][1].address.key_index
        /\ local[t].deposit[1] \in trace[t].appended

\* ------------------------------------------------------------------------
\* get_address_outputs on an address with about a thousand outputs
\* ------------------------------------------------------------------------
\* the length at which get_address_outputs takes the node's list for capped
OutputsPageLimit == 1000

\* the node holds up to OutputsPageLimit + MaxBeyondPage outputs of the address
MaxBeyondPage == 1

\* the outputs of the address that may be unspent: the two oldest, the last
\* of a full page and the ones beyond it
UnspentCandidates == {1, 2} \cup (OutputsPageLimit..(OutputsPageLimit + MaxBeyondPage))

\* s in reverse order
Reversed(s) == [i \in 1..Len(s) |-> s[Len(s) + 1 - i]]

\* client.get_address().outputs(address, include_spent): the output ids the
\* node lists for the address, in the node's order, at most a page of them
NodeAddressOutputs(include_spent) ==
    LET Listed(id) == include_spent \/ id \in ledger.unspent
        ids == SelectSeq([i \in 1..ledger.held |-> i], Listed)
        answer == IF ledger.descending THEN Reversed(ids) ELSE ids
    IN SubSeq(answer, 1, IF Len(answer) < OutputsPageLimit THEN Len(answer)
                         ELSE OutputsPageLimit)

\* Vec::dedup: of every run of equal consecutive elements the first is kept
Dedup(s) ==
    LET FirstOfRun(i) == i = 1 \/ s[i] # s[i - 1]
        kept == SelectSeq([i \in 1..Len(s) |-> i], FirstOfRun)
    IN [k \in 1..Len(kept) |-> s[kept[k]]]

\* get_address_outputs: the node's list and, when it is as long as a page
\* and spent outputs were asked for, the unspent outputs appended and dedup
GetAddressOutputsPaged(fetch_spent_outputs) ==
    LET address_outputs == NodeAddressOutputs(fetch_spent_outputs)
    IN IF fetch_spent_outputs /\ Len(address_outputs) = OutputsPageLimit
       THEN Dedup(address_outputs \o NodeAddressOutputs(FALSE))
       ELSE address_outputs

\* the node holds a page of outputs of the address, one less or some more;
\* some of the candidates are unspent; the node lists in either order
InitOutputs ==
    /\ \E held \in (OutputsPageLimit - 1)..(OutputsPageLimit + MaxBeyondPage),
          unspent \in SUBSET UnspentCandidates, descending \in BOOLEAN :
          ledger = [held |-> held, unspent |-> unspent \cap 1..held,
                    descending |-> descending]
    /\ account = [addresses |-> <<AddressBuilder(P0, 0, {})>>, messages |-> <<>>,
                  sync_spent_outputs |-> FALSE]
    /\ synchronizer = [s \in Syncs |-> IdleSynchronizer]
    /\ last_sync = NoSync
    /\ saved_state = NeverSynced
    /\ synced_address = NoAddressSync
    /\ addresses = <<>>
    /\ outputs = <<>>
    /\ node_outputs = <<>>
    /\ storage = [addresses |-> <<>>, messages |-> <<>>]
    /\ messages = <<>>
    /\ InitTransfers
    /\ dust = NoDust
    /\ PollIdle

\* a call of get_address_outputs for the address
CallGetAddressOutputs(fetch_spent_outputs) ==
    /\ ~synced_address.called
    /\ synced_address' = [called |-> TRUE, fetch_spent_outputs |-> fetch_spent_outputs,
                          address_outputs |-> GetAddressOutputsPaged(fetch_spent_outputs)]
    /\ UNCHANGED <<ledger, account, synchronizer, last_sync, saved_state, engine_vars>>

NextOutputs == \E fetch_spent_outputs \in BOOLEAN : CallGetAddressOutputs(fetch_spent_outputs)

SpecOutputs == InitOutputs /\ [][NextOutputs]_vars

\* C38: the list get_address_outputs returns holds every output id once,
\* also when the first answer is a full page and the unspent outputs are
\* merged in, whatever the order of the node's answers
NoDuplicateOutputIds ==
    synced_address.called =>
        \A i, j \in 1..Len(synced_address.address_outputs) :
            synced_address.address_outputs[i] = synced_address.address_outputs[j] => i = j

\* ------------------------------------------------------------------------
\* MQTT monitoring across AccountSynchronizer::execute, with the failures of
\* its steps
\* ------------------------------------------------------------------------
\* the step of execute that fails: get_new_history, parse_messages,
\* account.save or the emission of an event
ExecuteFaults == {"none", "history", "parse", "save", "events"}

\* a fresh account whose handle has MQTT monitoring enabled
InitMqtt ==
    /\ ledger = [outputs |-> [id \in OutputIds |-> "absent"],
                 metadata |-> [m \in MessageIds |-> "unknown"]]
    /\ \E spent \in BOOLEAN :
          account = [addresses |-> <<AddressBuilder(P0, 0, {})>>, messages |-> <<>>,
                     sync_spent_outputs |-> spent, is_mqtt_enabled |-> TRUE]
    /\ synchronizer = [s \in Syncs |-> IdleSynchronizer]
    /\ last_sync = NoSync
    /\ saved_state = NeverSynced
    /\ synced_address = NoAddressSync
    /\ addresses = <<>>
    /\ outputs = <<>>
    /\ node_outputs = <<>>
    /\ storage = [addresses |-> <<>>, messages |-> <<>>]
    /\ messages = <<>>
    /\ InitTransfers
    /\ dust = NoDust
    /\ sync_accounts_lock = "none"
    /\ store = <<>>
    /\ node = <<>>
    /\ poller = <<>>
    /\ caller = <<>>
    /\ last_discovery = <<>>
    /\ handles = <<>>
    /\ manager_storage = {}
    /\ last_call = NoCall

\* AccountSynchronizer::execute from the answer of get_new_history to its
\* return, disable_mqtt having been its first statement: the match on the
\* answer, then in its Ok arm parse_messages, append and save, get_events and
\* the emissions, each left with `?` when it fails; enable_mqtt is the
\* statement after the match
ExecuteWithFault(s, fault) ==
    /\ synchronizer[s].pc = "fetched"
    /\ LET data == synchronizer[s].data
           appended == Persist(account, data, data.messages, FALSE)
           New(m) == \A i \in 1..Len(account.messages) : account.messages[i].id # m.id
           Changed(m) == \E i \in 1..Len(account.messages) :
                            /\ account.messages[i].id = m.id
                            /\ account.messages[i].confirmed # m.confirmed
           events == GetEvents(account.addresses, appended.addresses,
                               SelectSeq(data.messages, New),
                               SelectSeq(data.messages, Changed),
                               account.sync_spent_outputs)
           after_match == fault \in {"none", "history"}
       IN /\ fault = "parse" => data.messages # <<>>
          /\ fault = "events" => events # NoEvents
          /\ account' = [(IF fault \in {"none", "save", "events"} THEN appended
                          ELSE account)
                            EXCEPT !.is_mqtt_enabled = after_match]
          /\ saved_state' = IF fault \in {"none", "events"}
                            THEN [last_synced_at |-> s,
                                  saved |-> <<SavedAccount(appended, s)>>]
                            ELSE saved_state
          /\ last_sync' = [NoSync EXCEPT !.steps = synchronizer[s].steps,
                                         !.events = IF fault = "none" THEN events
                                                    ELSE NoEvents]
          /\ last_call' = Called("execute", s, 0, IF fault = "none" THEN "Ok" ELSE fault,
                                 TRUE)
    /\ synchronizer' = [synchronizer EXCEPT ![s] = [IdleSynchronizer EXCEPT !.pc = "done"]]
    /\ UNCHANGED <<ledger, synced_address, account_vars, transfer_vars, dust,
                   sync_accounts_lock, store, node, poller, caller, last_discovery,
                   handles, manager_storage>>

NextMqtt ==
    \/ \E id \in OutputIds : Receive(id)
    \/ \E id \in OutputIds : Spend(id)
    \/ \E m \in MessageIds : Include(m)
    \/ \E c \in SyncChoices : GetNewHistory(1, c.steps, c.locked)
    \/ \E fault \in ExecuteFaults : ExecuteWithFault(1, fault)

SpecMqtt == InitMqtt /\ [][NextMqtt]_vars

\* C39: every call of AccountSynchronizer::execute has re-enabled MQTT
\* monitoring when it returns, with Ok or with the error of the history
\* fetch, of the message parsing, of the account save or of an emission
ExecuteReenablesMqtt ==
    [][last_call' # last_call /\ last_call'.op = "execute"
          => account'.is_mqtt_enabled]_vars

\* ------------------------------------------------------------------------
\* A sync of several accounts that fails for one of them
\* (AccountsSynchronizer::execute_internal)
\* ------------------------------------------------------------------------
\* the orders in which accounts.values() can list the accounts of the
\* HashMap
AccountOrders ==
    {o \in [1..Cardinality(AccountIndexes) -> AccountIndexes] :
        \A j, k \in DOMAIN o : o[j] = o[k] => j = k}

\* the step of the call that fails and the account it fails for, if any
NoFault == [account |-> 0, step |-> "none"]
SyncFaults ==
    {NoFault} \cup [account : AccountIndexes, step : {"history", "parse", "save"}]

\* sync.get_new_history() of account i, answered Ok: its first address with
\* the balance and the output the node holds for it, and the message of
\* that output
NewHistory(i) ==
    [addresses |-> <<AddressBuilder(P0, node[i].balance,
                                    IF node[i].balance > 0 THEN {i + 1} ELSE {})>>,
     messages |-> IF node[i].message
                  THEN <<[id |-> i + 1, payload |-> TransactionPayload,
                          confirmed |-> ConfirmedTrue]>>
                  ELSE <<>>]

RECURSIVE AppendSyncedAddresses(_, _, _)
\* execute_internal, the loop over the results of the tasks: `res?` returns
\* the error of an account's get_new_history; the addresses of the accounts
\* before it in the list have been appended by then
AppendSyncedAddresses(order, fault, accounts) ==
    IF order = <<>> THEN [ok |-> TRUE, accounts |-> accounts, saved |-> {}]
    ELSE LET i == Head(order)
         IN IF fault = [account |-> i, step |-> "history"]
            THEN [ok |-> FALSE, accounts |-> accounts, saved |-> {}]
            ELSE AppendSyncedAddresses(Tail(order), fault,
                     [accounts EXCEPT ![i].addresses =
                                         AppendAddresses(@, NewHistory(i).addresses)])

RECURSIVE AppendSyncedMessages(_, _, _, _)
\* execute_internal, the loop over synced_data: parse_messages(..)?, then
\* append_messages and set_last_synced_at, then account.save()?
AppendSyncedMessages(order, fault, accounts, saved) ==
    IF order = <<>> THEN [ok |-> TRUE, accounts |-> accounts, saved |-> saved]
    ELSE LET i == Head(order)
             parsed == [accounts EXCEPT
                           ![i].messages = AppendMessages(@, NewHistory(i).messages),
                           ![i].last_synced_at = "Some"]
         IN IF fault = [account |-> i, step |-> "parse"]
            THEN [ok |-> FALSE, accounts |-> accounts, saved |-> saved]
            ELSE IF fault = [account |-> i, step |-> "save"]
            THEN [ok |-> FALSE, accounts |-> parsed, saved |-> saved]
            ELSE AppendSyncedMessages(Tail(order), fault, parsed, saved \cup {i})

\* execute_internal for the accounts of the store; the account with the
\* highest index holds funds on the node only for itself, so that
\* discover_accounts, when it runs, finds its first account empty and adds
\* none
ExecuteInternalWithFault(order, fault) ==
    LET appended == AppendSyncedAddresses(order, fault, store)
    IN IF appended.ok THEN AppendSyncedMessages(order, fault, appended.accounts, {})
       ELSE appended

\* an account manager with the accounts 0..MaxAccountIndex, each with its
\* first address, nothing found yet
InitMulti ==
    /\ store = [i \in AccountIndexes |->
                   [index |-> i, addresses |-> <<AddressBuilder(P0, 0, {})>>,
                    messages |-> <<>>, last_synced_at |-> "None"]]
    /\ node = [i \in AccountIndexes |-> [balance |-> 0, message |-> FALSE]]
    /\ manager_storage = {}
    /\ last_call = NoCall
    /\ sync_accounts_lock = NoHolder
    /\ poller = <<>>
    /\ caller = <<>>
    /\ last_discovery = <<>>
    /\ handles = <<>>
    /\ SyncIdle
    /\ addresses = <<>>
    /\ outputs = <<>>
    /\ node_outputs = <<>>
    /\ storage = [addresses |-> <<>>, messages |-> <<>>]
    /\ messages = <<>>
    /\ InitTransfers
    /\ dust = NoDust

\* the node receives funds on the first address of account i
NodeReceives(i) ==
    /\ node[i].balance = 0
    /\ node' = [node EXCEPT ![i].balance = 1]
    /\ UNCHANGED <<store, manager_storage, last_call, sync_accounts_lock, poller, caller,
                   last_discovery, handles, sync_vars, account_vars, transfer_vars, dust>>

\* the node holds the message of the output of account i
NodeIncludes(i) ==
    /\ node[i].balance > 0 /\ ~node[i].message
    /\ node' = [node EXCEPT ![i].message = TRUE]
    /\ UNCHANGED <<store, manager_storage, last_call, sync_accounts_lock, poller, caller,
                   last_discovery, handles, sync_vars, account_vars, transfer_vars, dust>>

\* AccountsSynchronizer::execute_internal from taking the mutex to its
\* return, with Ok or with the error of its first failing step
SyncAccountsWithFault(order, fault) ==
    /\ fault.step = "parse" => NewHistory(fault.account).messages # <<>>
    /\ LET returned == ExecuteInternalWithFault(order, fault)
       IN /\ store' = returned.accounts
          /\ manager_storage' = manager_storage \cup returned.saved
          /\ last_call' = Called("sync_accounts", fault.account, 0,
                                 IF returned.ok THEN "Ok" ELSE fault.step, TRUE)
    /\ UNCHANGED <<node, sync_accounts_lock, poller, caller, last_discovery, handles,
                   sync_vars, account_vars, transfer_vars, dust>>

NextMulti ==
    \/ \E i \in AccountIndexes : NodeReceives(i)
    \/ \E i \in AccountIndexes : NodeIncludes(i)
    \/ \E order \in AccountOrders, fault \in SyncFaults : SyncAccountsWithFault(order, fault)

SpecMulti == InitMulti /\ [][NextMulti]_vars

\* C40: when execute_internal returns an error, the call has modified the
\* in-memory address list and message list of no account
FailedSyncModifiesNoAccount ==
    [][last_call' # last_call /\ last_call'.op = "sync_accounts" /\ last_call'.result # "Ok"
          => \A i \in AccountIndexes :
                /\ store'[i].addresses = store[i].addresses
                /\ store'[i].messages = store[i].messages]_vars

====
